---- MODULE Spec2Model ----
(***************************************************************************)
(* Model of the artifact classification and extraction pipeline of         *)
(* esb-to-design: the content sniffer, the four platform parsers (OSB,     *)
(* Boomi, Tibco, MuleSoft) and the ParserRegistry.                         *)
(*                                                                         *)
(* A file's content is modelled at the level of the lexical units the     *)
(* parsers' regular expressions and substring tests act on: a text        *)
(* content is a sequence of tokens (one tag, one element or one run of    *)
(* plain text each), a JSON content is the parsed document.  Every        *)
(* substring test, regular expression and string conversion of the code   *)
(* is an operator over these tokens.                                       *)
(***************************************************************************)
EXTENDS Integers, Sequences, FiniteSets, TLC

VARIABLES
    parsers,     \* ParserRegistry.parsers, the ordered list of platform parsers
    filename,    \* the file name of the artifact the registry is called with
    content,     \* its content
    now,         \* the clock read by new Date()
    detections,  \* the values returned by the detectPlatform calls so far
    outcomes,    \* the outcomes of the parseFile calls so far
    calls,       \* the registry calls in flight, one record per call
    store,       \* the MemStorage instance: its maps and its id counters
    jobs         \* the processFile and generateDocument calls in flight

vars == <<parsers, filename, content, now, detections, outcomes, calls, store, jobs>>

(***************************************************************************)
(* Bounds of the model.                                                    *)
(***************************************************************************)
MaxCalls == 3
MaxLenRegistry == 2
MaxLenOSB == 4
MaxBodyMule == 3
MaxEntries == 2
MaxLenSniff == 3
MaxLenExtract == 3
MaxConcurrent == 2
MaxBlocks == 2
MaxFiles == 2

(***************************************************************************)
(* JavaScript values.                                                      *)
(***************************************************************************)
Undefined == "<undefined>"

Truthy(s) == s # Undefined /\ s # ""

Or(a, b) == IF Truthy(a) THEN a ELSE b

None == [def |-> FALSE, items |-> <<>>]

Some(xs) == [def |-> TRUE, items |-> xs]

ToLowerCase(s) ==
    CASE s = "XML" -> "xml"
      [] s = "Xml" -> "xml"
      [] s = "JSON" -> "json"
      [] s = "JAR" -> "jar"
      [] s = "A" -> "a"
      [] s = "B" -> "b"
      [] s = "GET" -> "get"
      [] s = "POST" -> "post"
      [] s = "Get" -> "get"
      [] s = "SOAP" -> "soap"
      [] s = "HTTP" -> "http"
      [] OTHER -> s

ToUpperCase(s) ==
    CASE s = "get" -> "GET"
      [] s = "Get" -> "GET"
      [] s = "post" -> "POST"
      [] s = "put" -> "PUT"
      [] s = " put" -> " PUT"
      [] s = "a" -> "A"
      [] s = "b" -> "B"
      [] OTHER -> s

Trim(s) ==
    CASE s = " put" -> "put"
      [] s = " POST" -> "POST"
      [] s = " /orders " -> "/orders"
      [] s = " " -> ""
      [] OTHER -> s

\* String.split(',') of an attribute value
SplitComma(s) ==
    CASE s = "GET,POST" -> <<"GET", "POST">>
      [] s = "get, put" -> <<"get", " put">>
      [] s = "GET, POST" -> <<"GET", " POST">>
      [] OTHER -> <<s>>

\* String.includes on an endpoint value
PathIncludes(p, lit) ==
    CASE lit = "/api/" -> p \in {"/api/orders", "/soap/api/x"}
      [] lit = "/rest/" -> p \in {"/rest/orders"}
      [] lit = "/soap/" -> p \in {"/soap/orders", "/soap/api/x"}
      [] lit = "wsdl" -> p \in {"/orders?wsdl"}
      [] OTHER -> FALSE

EqualsIgnoreCase(a, b) == ToLowerCase(a) = ToLowerCase(b)

(***************************************************************************)
(* Tokens of a text content.                                               *)
(*   Prolog                <?xml version="1.0"?>                           *)
(*   ProxyOpen  n          <proxy-service name="n">  (n = Undefined: no    *)
(*                         name attribute)                                 *)
(*   ProxyClose            </proxy-service>                                *)
(*   Rest                  <rest-binding/>                                 *)
(*   HttpMethod v          <http:method>v</http:method>                    *)
(*   Elem n v              <n>v</n>                                        *)
(*   Xsl                   <xsl:stylesheet version="1.0">                  *)
(*   PdOpen n, PdClose     <pd:ProcessDefinition name="n">, its end tag    *)
(*   Receiver              <pd:activity name="HTTP Receiver">              *)
(*   Mapper                <pd:activity type="com.tibco.plugin.mapper.     *)
(*                         MapperActivity">                                *)
(*   Method v              <method>v</method>                              *)
(*   Config v              <config><value>v</value></config>               *)
(*   MuleRoot, MuleClose   <mule xmlns="http://www.mulesoft.org">, </mule> *)
(*   FlowOpen n, FlowClose <flow name="n">, </flow>                        *)
(*   Listener n v w        <http:listener config-ref="n" path="v"          *)
(*                         allowedMethods="w"/> (Undefined: no attribute)  *)
(*   Dw                    <dw:transform-message>..</dw:transform-message> *)
(*   Text v                the plain text v, without any '<'               *)
(*   Pad                   1000 bytes of plain text without any '<'        *)
(***************************************************************************)
Tok(t, n, v, w) == [t |-> t, n |-> n, v |-> v, w |-> w]

T0(t) == Tok(t, Undefined, Undefined, Undefined)

ProxyOpen(n) == Tok("ProxyOpen", n, Undefined, Undefined)

PdOpen(n) == Tok("PdOpen", n, Undefined, Undefined)

FlowOpen(n) == Tok("FlowOpen", n, Undefined, Undefined)

HttpMethod(v) == Tok("HttpMethod", Undefined, v, Undefined)

Method(v) == Tok("Method", Undefined, v, Undefined)

Config(v) == Tok("Config", Undefined, v, Undefined)

Elem(n, v) == Tok("Elem", n, v, Undefined)

Listener(n, v, w) == Tok("Listener", n, v, w)

Text(v) == Tok("Text", Undefined, v, Undefined)

SniffBytes == 1000

PadBytes == SniffBytes

TokBytes(tok) == IF tok.t = "Pad" THEN PadBytes ELSE 16

\* does the text of the token contain the literal lit
TokIncludes(tok, lit) ==
    CASE lit = "<" -> tok.t \notin {"Text", "Pad"}
      [] lit = "proxy-service" ->
            tok.t \in {"ProxyOpen", "ProxyClose"} \/ (tok.t = "Text" /\ tok.v = lit)
      [] lit = "pd:ProcessDefinition" ->
            tok.t \in {"PdOpen", "PdClose"} \/ (tok.t = "Text" /\ tok.v = lit)
      [] lit = "tibco.plugin" ->
            tok.t = "Mapper" \/ (tok.t = "Text" /\ tok.v = lit)
      [] lit = "mule xmlns" ->
            tok.t = "MuleRoot" \/ (tok.t = "Text" /\ tok.v = lit)
      [] lit = "http://www.mulesoft.org" ->
            tok.t = "MuleRoot" \/ (tok.t = "Text" /\ tok.v = lit)
      [] lit = "rest-" ->
            tok.t = "Rest" \/ (tok.t = "Text" /\ tok.v = lit)
      [] OTHER -> tok.t = "Text" /\ tok.v = lit

(***************************************************************************)
(* JSON documents: the value read by JSON.parse.  shape is "object" for an *)
(* object, "null" for null and "scalar" for a number, a string, a boolean  *)
(* or an array.  keys is the set of top-level keys of an object, each with *)
(* a truthy value; nonlist is the set of those keys whose value cannot be  *)
(* iterated (an object, a number, true); the value of every other key is   *)
(* the list of its entries, empty when the key is not present.  An entry   *)
(* is an object or null.                                                   *)
(***************************************************************************)
NoDoc ==
    [shape |-> "object", keys |-> {}, nonlist |-> {}, processes |-> <<>>,
     connectors |-> <<>>, maps |-> <<>>, flows |-> <<>>, transformations |-> <<>>]

NullDoc == [NoDoc EXCEPT !.shape = "null"]

ScalarDoc == [NoDoc EXCEPT !.shape = "scalar"]

NullEntry == [isNull |-> TRUE]

IsNull(e) == "isNull" \in DOMAIN e

TextContent(toks) == [kind |-> "text", toks |-> toks, doc |-> NoDoc]

JsonContent(doc) == [kind |-> "json", toks |-> <<>>, doc |-> doc]

\* does the JSON text of the document contain the literal lit
DocIncludes(doc, lit) ==
    CASE lit = "\"flows\"" -> "flows" \in doc.keys
      [] lit = "\"muleVersion\"" -> "muleVersion" \in doc.keys
      [] lit = "\"mule" -> "muleVersion" \in doc.keys
      [] lit = "\"processId\"" ->
            \E i \in 1..Len(doc.processes) :
                ~IsNull(doc.processes[i]) /\ doc.processes[i].processId # Undefined
      [] lit = "\"componentType\"" -> "componentType" \in doc.keys
      [] OTHER -> FALSE

\* contentStr.includes(lit) on content.toString('utf8')
Includes(c, lit) ==
    IF c.kind = "json"
    THEN DocIncludes(c.doc, lit)
    ELSE \E i \in 1..Len(c.toks) : TokIncludes(c.toks[i], lit)

RECURSIVE Offset(_, _)
Offset(toks, i) == IF i <= 1 THEN 0 ELSE Offset(toks, i - 1) + TokBytes(toks[i - 1])

(***************************************************************************)
(* Content Sniffer (BaseParser).                                           *)
(***************************************************************************)
extractFileExtension(f) == Or(ToLowerCase(f[Len(f)]), "")

\* content.toString('utf8', 0, n): the tokens that begin within the first n
\* bytes (a token is 16 bytes or 1000, so that the first characters of the
\* last one are within them)
Prefix(toks, n) == SelectSeq([i \in 1..Len(toks) |->
                                 IF Offset(toks, i) < n THEN toks[i] ELSE T0("Cut")],
                             LAMBDA tok : tok.t # "Cut")

IsBlank(tok) == tok.t = "Text" /\ Trim(tok.v) = ""

\* str.trim().startsWith('<?xml')
StartsWithProlog(str) ==
    \E i \in 1..Len(str) :
        str[i].t = "Prolog" /\ \A j \in 1..(i - 1) : IsBlank(str[j])

\* a sniffer that decodes the whole content instead of its first 1000 bytes
isXmlContentWhole(c) ==
    /\ c.kind = "text"
    /\ \/ StartsWithProlog(c.toks)
       \/ \E i \in 1..Len(c.toks) : TokIncludes(c.toks[i], "<")

\* the text of a JSON document of the model has no '<'
isXmlContent(c) ==
    /\ c.kind = "text"
    /\ LET contentStr == Prefix(c.toks, SniffBytes) IN
       \/ StartsWithProlog(contentStr)
       \/ \E i \in 1..Len(contentStr) : TokIncludes(contentStr[i], "<")

isJsonContent(c) == c.kind = "json"

(***************************************************************************)
(* Platform matchers.                                                      *)
(***************************************************************************)
OSBcanParse(f, c) ==
    LET ext == extractFileExtension(f) IN
    IF ext \in {"ear", "jar"} THEN TRUE
    ELSE IF ext = "xml" /\ isXmlContent(c)
         THEN \/ Includes(c, "xmlns:osb")
              \/ Includes(c, "proxy-service")
              \/ Includes(c, "business-service")
         ELSE FALSE

\* a matcher that takes a .json file only when it carries a Boomi marker
BoomicanParseMarkers(f, c) ==
    LET ext == extractFileExtension(f) IN
    IF ext = "zip" THEN TRUE
    ELSE IF ext = "json" /\ isJsonContent(c)
         THEN \/ Includes(c, "\"componentType\"")
              \/ Includes(c, "\"processId\"")
              \/ Includes(c, "\"boomi")
         ELSE FALSE

BoomicanParse(f, c) ==
    LET ext == extractFileExtension(f) IN
    IF ext \in {"zip", "json"} THEN TRUE
    ELSE IF ext = "json" /\ isJsonContent(c)
         THEN \/ Includes(c, "\"componentType\"")
              \/ Includes(c, "\"processId\"")
              \/ Includes(c, "\"boomi")
         ELSE FALSE

\* a matcher that takes any XML-like content without looking for a marker
TibcocanParseAnyXml(f, c) ==
    LET ext == extractFileExtension(f) IN
    IF ext \in {"ear", "xml", "process"} THEN TRUE
    ELSE isXmlContent(c)

TibcocanParse(f, c) ==
    LET ext == extractFileExtension(f) IN
    IF ext \in {"ear", "xml", "process"} THEN TRUE
    ELSE IF isXmlContent(c)
         THEN \/ Includes(c, "xmlns:tibco")
              \/ Includes(c, "pd:ProcessDefinition")
              \/ Includes(c, "tibco.plugin")
         ELSE FALSE

MuleSoftcanParse(f, c) ==
    LET ext == extractFileExtension(f) IN
    IF ext \in {"jar", "xml", "json"} THEN TRUE
    ELSE IF isXmlContent(c)
         THEN \/ Includes(c, "mule xmlns")
              \/ Includes(c, "http://www.mulesoft.org")
              \/ Includes(c, "mule-config")
         ELSE IF isJsonContent(c)
              THEN \/ Includes(c, "\"muleVersion\"")
                   \/ Includes(c, "\"flows\"")
                   \/ Includes(c, "\"mule")
              ELSE FALSE

canParse(p, f, c) ==
    CASE p = "OSB" -> OSBcanParse(f, c)
      [] p = "Boomi" -> BoomicanParse(f, c)
      [] p = "Tibco" -> TibcocanParse(f, c)
      [] p = "MuleSoft" -> MuleSoftcanParse(f, c)
      [] OTHER -> FALSE

(***************************************************************************)
(* Records of the unified model.                                           *)
(***************************************************************************)
Service(name, type, platform, endpoint, methods, description, req, resp) ==
    [name |-> name, type |-> type, platform |-> platform, endpoint |-> endpoint,
     methods |-> methods, description |-> description,
     requestSchema |-> req, responseSchema |-> resp]

Proxy(name, serviceUri, endpointUri, wsdlResource, configuration) ==
    [name |-> name, serviceUri |-> serviceUri, endpointUri |-> endpointUri,
     wsdlResource |-> wsdlResource, configuration |-> configuration]

Transformation(name, type, sourceSchema, targetSchema, mapping) ==
    [name |-> name, type |-> type, sourceSchema |-> sourceSchema,
     targetSchema |-> targetSchema, mappingConfiguration |-> mapping]

\* a parser whose services array is a field of the instance: the services of
\* an earlier call are still in it
ParseResultAccumulating(platform, f, t, services, proxyServices, transformations) ==
    LET kept == IF t > 0 THEN services \o services ELSE services IN
    [services |-> kept,
     proxyServices |-> proxyServices,
     transformations |-> transformations,
     metadata |-> [platform |-> platform,
                   filename |-> f,
                   parsedAt |-> t,
                   serviceCount |-> Len(kept),
                   proxyServiceCount |-> Len(proxyServices),
                   transformationCount |-> Len(transformations)]]

ParseResult(platform, f, t, services, proxyServices, transformations) ==
    [services |-> services,
     proxyServices |-> proxyServices,
     transformations |-> transformations,
     metadata |-> [platform |-> platform,
                   filename |-> f,
                   parsedAt |-> t,
                   serviceCount |-> Len(services),
                   proxyServiceCount |-> Len(proxyServices),
                   transformationCount |-> Len(transformations)]]

\* the outcome of a call: a returned ParseResult, or a thrown Error whose
\* message is the text error followed by the file name errorFile
Returned(r) == [status |-> "returned", result |-> <<r>>, error |-> "", errorFile |-> <<>>]

Thrown(msg, f) == [status |-> "thrown", result |-> <<>>, error |-> msg, errorFile |-> f]

\* the Error a parser's catch block throws for the error it caught: the
\* platform's prefix followed by the message of the caught error
Failed(platform, message) ==
    Thrown("Failed to parse " \o platform \o " file: " \o message, <<>>)

Map(F(_), xs) == [i \in 1..Len(xs) |-> F(xs[i])]

MapIndexed(F(_, _), xs) == [i \in 1..Len(xs) |-> F(xs[i], i)]

Numbered(prefix, k) == prefix \o ToString(k)

\* first <tagName ...>text</tagName> of the block, case-insensitively, trimmed
extractValue(xml, tagName) ==
    LET hits == SelectSeq(xml, LAMBDA tok :
                    tok.t = "Elem" /\ EqualsIgnoreCase(tok.n, tagName)) IN
    IF Len(hits) > 0 THEN Trim(hits[1].v) ELSE Undefined

\* the text matched by <open[^>]*name="name"[\s\S]*?</close> with flag i:
\* from the first opening tag carrying the name to the first end tag after it
BlockOf(toks, open, close, name) ==
    LET starts == {i \in 1..Len(toks) :
                      /\ toks[i].t = open
                      /\ toks[i].n # Undefined
                      /\ EqualsIgnoreCase(toks[i].n, name)} IN
    IF starts = {} THEN [matched |-> FALSE, xml |-> <<>>]
    ELSE LET s == CHOOSE i \in starts : \A j \in starts : i <= j
             ends == {j \in (s + 1)..Len(toks) : toks[j].t = close} IN
         IF ends = {} THEN [matched |-> FALSE, xml |-> <<>>]
         ELSE LET e == CHOOSE i \in ends : \A j \in ends : i <= j IN
              [matched |-> TRUE, xml |-> SubSeq(toks, s, e)]

XmlIncludes(xml, lit) == \E i \in 1..Len(xml) : TokIncludes(xml[i], lit)

(***************************************************************************)
(* OSB extractor.                                                          *)
(***************************************************************************)
NamedTags(toks, open) ==
    SelectSeq(toks, LAMBDA tok : tok.t = open /\ tok.n # Undefined)

EmptyConfig ==
    [type |-> Undefined, endpoint |-> Undefined, serviceUri |-> Undefined,
     endpointUri |-> Undefined, wsdlResource |-> Undefined,
     description |-> Undefined, methods |-> None,
     requestSchema |-> Undefined, responseSchema |-> Undefined]

\* the method list returned as found, without the default
extractRestMethodsNoDefault(xml) ==
    LET methodMatches == SelectSeq(xml, LAMBDA tok : tok.t = "HttpMethod")
        pushed == SelectSeq(methodMatches, LAMBDA tok : Truthy(tok.v)) IN
    Map(LAMBDA tok : ToUpperCase(tok.v), pushed)

extractRestMethods(xml) ==
    LET methodMatches == SelectSeq(xml, LAMBDA tok : tok.t = "HttpMethod")
        pushed == SelectSeq(methodMatches, LAMBDA tok : Truthy(tok.v))
        methods == Map(LAMBDA tok : ToUpperCase(tok.v), pushed) IN
    IF Len(methods) > 0 THEN methods ELSE <<"GET", "POST">>

extractServiceConfig(toks, serviceName) ==
    LET serviceMatch == BlockOf(toks, "ProxyOpen", "ProxyClose", serviceName)
        serviceXml == serviceMatch.xml IN
    IF ~serviceMatch.matched THEN EmptyConfig
    ELSE [type |-> IF XmlIncludes(serviceXml, "rest-") THEN "REST" ELSE "SOAP",
          endpoint |-> Or(extractValue(serviceXml, "endpoint-uri"),
                          extractValue(serviceXml, "uri")),
          serviceUri |-> extractValue(serviceXml, "service-uri"),
          endpointUri |-> extractValue(serviceXml, "endpoint-uri"),
          wsdlResource |-> extractValue(serviceXml, "wsdl-resource"),
          description |-> extractValue(serviceXml, "description"),
          methods |-> IF XmlIncludes(serviceXml, "rest-")
                      THEN Some(extractRestMethods(serviceXml))
                      ELSE Some(<<"POST">>),
          requestSchema |-> extractValue(serviceXml, "request-type"),
          responseSchema |-> extractValue(serviceXml, "response-type")]

\* a service tagged with the product's full name instead of the parser's
\* platform
OSBServiceFullName(toks, tok) ==
    LET serviceConfig == extractServiceConfig(toks, tok.n) IN
    Service(tok.n, Or(serviceConfig.type, "SOAP"), "Oracle Service Bus",
            serviceConfig.endpoint, serviceConfig.methods, serviceConfig.description,
            serviceConfig.requestSchema, serviceConfig.responseSchema)

OSBService(toks, tok) ==
    LET serviceConfig == extractServiceConfig(toks, tok.n) IN
    Service(tok.n, Or(serviceConfig.type, "SOAP"), "OSB", serviceConfig.endpoint,
            serviceConfig.methods, serviceConfig.description,
            serviceConfig.requestSchema, serviceConfig.responseSchema)

OSBProxy(toks, tok) ==
    LET serviceConfig == extractServiceConfig(toks, tok.n) IN
    Proxy(tok.n, serviceConfig.serviceUri, serviceConfig.endpointUri,
          serviceConfig.wsdlResource, serviceConfig)

OSBparse(f, c, t) ==
    IF isXmlContent(c)
    THEN LET proxyMatches == NamedTags(c.toks, "ProxyOpen")
             xsltMatches == SelectSeq(c.toks, LAMBDA tok : tok.t = "Xsl") IN
         Returned(ParseResult("OSB", f, t,
             Map(LAMBDA tok : OSBService(c.toks, tok), proxyMatches),
             Map(LAMBDA tok : OSBProxy(c.toks, tok), proxyMatches),
             MapIndexed(LAMBDA tok, i :
                 Transformation(Numbered("XSLT_Transform_", i), "XSLT",
                     "auto-detected", "auto-detected", tok), xsltMatches)))
    ELSE Returned(ParseResult("OSB", f, t, <<>>, <<>>, <<>>))

(***************************************************************************)
(* Tibco extractor.                                                        *)
(***************************************************************************)
EmptyFlowConfig ==
    [endpoint |-> Undefined, description |-> Undefined, methods |-> None,
     requestSchema |-> Undefined, responseSchema |-> Undefined]

extractHttpReceiverPath(xml) ==
    LET hits == SelectSeq(xml, LAMBDA tok : tok.t = "Config") IN
    IF Len(hits) > 0 THEN hits[1].v ELSE Undefined

TibcoextractHttpMethods(xml) ==
    LET methodMatches == SelectSeq(xml, LAMBDA tok : tok.t = "Method") IN
    IF Len(methodMatches) > 0
    THEN Map(LAMBDA tok : IF Truthy(tok.v) THEN ToUpperCase(tok.v) ELSE "POST",
             methodMatches)
    ELSE <<"GET", "POST">>

extractProcessConfig(toks, processName) ==
    LET processMatch == BlockOf(toks, "PdOpen", "PdClose", processName)
        processXml == processMatch.xml IN
    IF ~processMatch.matched THEN EmptyFlowConfig
    ELSE [endpoint |-> Or(extractValue(processXml, "endpoint"),
                          extractHttpReceiverPath(processXml)),
          description |-> extractValue(processXml, "description"),
          methods |-> Some(TibcoextractHttpMethods(processXml)),
          requestSchema |-> extractValue(processXml, "inputSchema"),
          responseSchema |-> extractValue(processXml, "outputSchema")]

TibcodetermineServiceType(config) ==
    IF Truthy(config.endpoint)
    THEN IF PathIncludes(config.endpoint, "/rest/") \/ PathIncludes(config.endpoint, "/api/")
         THEN "REST"
         ELSE IF PathIncludes(config.endpoint, "/soap/") \/ PathIncludes(config.endpoint, "wsdl")
              THEN "SOAP"
              ELSE "REST"
    ELSE "REST"

\* content.indexOf(match), then the first <value> of the 1000 characters from there
extractHttpReceiverConfig(toks, match) ==
    LET at == CHOOSE i \in 1..Len(toks) :
                  toks[i] = match /\ \A j \in 1..(i - 1) : toks[j] # match
        hits == {j \in at..Len(toks) :
                    /\ toks[j].t = "Config"
                    /\ Offset(toks, j) + TokBytes(toks[j]) - Offset(toks, at) <= SniffBytes} IN
    IF hits = {} THEN "/default-path"
    ELSE toks[CHOOSE j \in hits : \A k \in hits : j <= k].v

TibcoService(toks, tok) ==
    LET processConfig == extractProcessConfig(toks, tok.n) IN
    Service(tok.n, TibcodetermineServiceType(processConfig), "Tibco",
            processConfig.endpoint, processConfig.methods, processConfig.description,
            processConfig.requestSchema, processConfig.responseSchema)

\* a parse that treats a file without any process definition as a failure
TibcoparseStrict(f, c, t) ==
    IF isXmlContent(c) /\ Len(NamedTags(c.toks, "PdOpen")) > 0
    THEN Returned(ParseResult("Tibco", f, t,
             Map(LAMBDA tok : TibcoService(c.toks, tok), NamedTags(c.toks, "PdOpen")),
             <<>>, <<>>))
    ELSE Failed("Tibco", "no process definition")

Tibcoparse(f, c, t) ==
    IF isXmlContent(c)
    THEN LET processMatches == NamedTags(c.toks, "PdOpen")
             httpReceiverMatches == SelectSeq(c.toks, LAMBDA tok : tok.t = "Receiver")
             mapperMatches == SelectSeq(c.toks, LAMBDA tok : tok.t = "Mapper") IN
         Returned(ParseResult("Tibco", f, t,
             Map(LAMBDA tok : TibcoService(c.toks, tok), processMatches),
             MapIndexed(LAMBDA tok, i :
                 Proxy(Numbered("HTTP_Receiver_", i),
                       extractHttpReceiverConfig(c.toks, tok), Undefined, Undefined,
                       tok), httpReceiverMatches),
             MapIndexed(LAMBDA tok, i :
                 Transformation(Numbered("Mapper_", i), "Tibco Mapper",
                     "auto-detected", "auto-detected", tok), mapperMatches)))
    ELSE Returned(ParseResult("Tibco", f, t, <<>>, <<>>, <<>>))

(***************************************************************************)
(* MuleSoft extractor.                                                     *)
(***************************************************************************)
extractHttpListenerPath(xml) ==
    LET hits == SelectSeq(xml, LAMBDA tok : tok.t = "Listener" /\ tok.v # Undefined) IN
    IF Len(hits) > 0 THEN hits[1].v ELSE Undefined

MuleSoftextractHttpMethods(xml) ==
    LET hits == SelectSeq(xml, LAMBDA tok : tok.t = "Listener" /\ tok.w # Undefined) IN
    IF Len(hits) > 0
    THEN Map(LAMBDA m : ToUpperCase(Trim(m)), SplitComma(hits[1].w))
    ELSE <<"GET", "POST">>

extractFlowConfig(toks, flowName) ==
    LET flowMatch == BlockOf(toks, "FlowOpen", "FlowClose", flowName)
        flowXml == flowMatch.xml IN
    IF ~flowMatch.matched THEN EmptyFlowConfig
    ELSE [endpoint |-> extractHttpListenerPath(flowXml),
          description |-> extractValue(flowXml, "doc:description"),
          methods |-> Some(MuleSoftextractHttpMethods(flowXml)),
          requestSchema |-> extractValue(flowXml, "request-type"),
          responseSchema |-> extractValue(flowXml, "response-type")]

\* an inference that also takes "wsdl" in the endpoint as a sign of SOAP
MuleSoftdetermineServiceTypeWsdl(config) ==
    IF Truthy(config.endpoint)
    THEN IF PathIncludes(config.endpoint, "/api/") \/ PathIncludes(config.endpoint, "/rest/")
         THEN "REST"
         ELSE IF PathIncludes(config.endpoint, "/soap/") \/ PathIncludes(config.endpoint, "wsdl")
              THEN "SOAP"
              ELSE "REST"
    ELSE "REST"

MuleSoftdetermineServiceType(config) ==
    IF Truthy(config.endpoint)
    THEN IF PathIncludes(config.endpoint, "/api/") \/ PathIncludes(config.endpoint, "/rest/")
         THEN "REST"
         ELSE IF PathIncludes(config.endpoint, "/soap/") THEN "SOAP" ELSE "REST"
    ELSE "REST"

MuleSoftService(toks, tok) ==
    LET flowConfig == extractFlowConfig(toks, tok.n) IN
    Service(tok.n, MuleSoftdetermineServiceType(flowConfig), "MuleSoft",
            flowConfig.endpoint, flowConfig.methods, flowConfig.description,
            flowConfig.requestSchema, flowConfig.responseSchema)

parseXmlContent(c) ==
    LET flowMatches == NamedTags(c.toks, "FlowOpen")
        httpListenerMatches == SelectSeq(c.toks, LAMBDA tok : tok.t = "Listener")
        dataWeaveMatches == SelectSeq(c.toks, LAMBDA tok : tok.t = "Dw") IN
    [services |-> Map(LAMBDA tok : MuleSoftService(c.toks, tok), flowMatches),
     proxyServices |-> MapIndexed(LAMBDA tok, i :
         Proxy(Numbered("HTTP_Listener_", i),
               IF tok.v # Undefined THEN tok.v ELSE "/default",
               IF tok.n # Undefined THEN tok.n ELSE "default-config",
               Undefined, tok), httpListenerMatches),
     transformations |-> MapIndexed(LAMBDA tok, i :
         Transformation(Numbered("DataWeave_Transform_", i), "DataWeave",
             "auto-detected", "auto-detected", tok), dataWeaveMatches)]

(***************************************************************************)
(* Values read from JSON.  A method list value is absent (k = "undef"), a  *)
(* single string (k = "str", items = <<s>>) or an array (k = "arr").       *)
(***************************************************************************)
NoList == [k |-> "undef", items |-> <<>>]

Str(s) == [k |-> "str", items |-> <<s>>]

Arr(xs) == [k |-> "arr", items |-> xs]

ListTruthy(v) == v.k = "arr" \/ (v.k = "str" /\ v.items[1] # "")

(***************************************************************************)
(* The TypeError a statement of an extractor raises, by its message; ""    *)
(* when the statement completes.                                           *)
(***************************************************************************)
NoError == ""

\* reading the property prop of null
NullRead(prop) == "Cannot read properties of null (reading '" \o prop \o "')"

\* for (const e of value) over a value that has no iterator
NotIterable(value) == value \o " is not iterable"

\* the error of the first statement that raises one
FirstError(errors) ==
    LET raised == SelectSeq(errors, LAMBDA e : e # NoError) IN
    IF Len(raised) > 0 THEN raised[1] ELSE NoError

NoSource == [k |-> "undef", type |-> Undefined, path |-> Undefined, allowedMethods |-> NoList]

determineServiceTypeFromJson(flow) ==
    IF flow.source.k = "obj" /\ flow.source.type = "http" THEN "REST"
    ELSE IF flow.source.k = "obj" /\ flow.source.type = "soap" THEN "SOAP"
    ELSE IF flow.source.k = "obj" /\ flow.source.type = "jms" THEN "JMS"
    ELSE IF flow.source.k = "obj" /\ flow.source.type = "file" THEN "FILE"
    ELSE "REST"

extractMethodsFromJson(flow) ==
    IF flow.source.k = "obj" /\ ListTruthy(flow.source.allowedMethods)
    THEN flow.source.allowedMethods.items
    ELSE <<"GET", "POST">>

MuleSoftJsonService(flow) ==
    Service(flow.name, determineServiceTypeFromJson(flow), "MuleSoft",
            Or(IF flow.source.k = "obj" THEN flow.source.path ELSE Undefined,
               flow.endpoint),
            Some(extractMethodsFromJson(flow)), flow.description,
            flow.inputSchema, flow.outputSchema)

\* the loop body reads flow.name, connector.name, transform.name first
EntryError(entry) == IF IsNull(entry) THEN NullRead("name") ELSE NoError

\* the error that ends parseJsonContent before it has filled the arrays
parseJsonContentError(c) ==
    IF c.doc.shape = "null" THEN NullRead("flows")
    ELSE FirstError(<<
        IF "flows" \in c.doc.nonlist THEN NotIterable("muleConfig.flows")
        ELSE FirstError(Map(EntryError, c.doc.flows)),
        IF "connectors" \in c.doc.nonlist THEN NotIterable("muleConfig.connectors")
        ELSE FirstError(Map(EntryError, c.doc.connectors)),
        IF "transformations" \in c.doc.nonlist
        THEN NotIterable("muleConfig.transformations")
        ELSE FirstError(Map(EntryError, c.doc.transformations))>>)

parseJsonContent(c) ==
    [services |->
        IF "flows" \in c.doc.keys
        THEN Map(MuleSoftJsonService, c.doc.flows) ELSE <<>>,
     proxyServices |->
        IF "connectors" \in c.doc.keys
        THEN Map(LAMBDA connector :
                 Proxy(connector.name, connector.path, connector.host,
                       Undefined, connector), c.doc.connectors)
        ELSE <<>>,
     transformations |->
        IF "transformations" \in c.doc.keys
        THEN Map(LAMBDA transform :
                 Transformation(transform.name, Or(transform.type, "DataWeave"),
                     transform.inputMimeType, transform.outputMimeType,
                     transform.script), c.doc.transformations)
        ELSE <<>>]

MuleSoftparse(f, c, t) ==
    IF ~isXmlContent(c) /\ isJsonContent(c) /\ parseJsonContentError(c) # NoError
    THEN Failed("MuleSoft", parseJsonContentError(c))
    ELSE LET parts ==
                 IF isXmlContent(c) THEN parseXmlContent(c)
                 ELSE IF isJsonContent(c) THEN parseJsonContent(c)
                 ELSE [services |-> <<>>, proxyServices |-> <<>>,
                       transformations |-> <<>>] IN
         Returned(ParseResult("MuleSoft", f, t, parts.services, parts.proxyServices,
                              parts.transformations))

(***************************************************************************)
(* Boomi extractor.                                                        *)
(***************************************************************************)
BoomidetermineServiceType(process) ==
    IF Truthy(process.connectorType)
    THEN LET ct == ToLowerCase(process.connectorType) IN
         CASE ct \in {"http", "rest"} -> "REST"
           [] ct \in {"soap", "web service"} -> "SOAP"
           [] ct = "jms" -> "JMS"
           [] ct \in {"file", "ftp", "sftp"} -> "FILE"
           [] OTHER -> "REST"
    ELSE "REST"

\* process.operations.map on a value that is not an array
extractMethodsError(process) ==
    IF /\ ~ListTruthy(process.httpMethods)
       /\ ListTruthy(process.operations)
       /\ process.operations.k # "arr"
    THEN "process.operations.map is not a function"
    ELSE NoError

\* a method list with the default of the other extractors
extractMethodsGetPost(process) ==
    IF ListTruthy(process.httpMethods) THEN process.httpMethods.items
    ELSE IF ListTruthy(process.operations)
         THEN Map(LAMBDA m : Or(m, "POST"), process.operations.items)
         ELSE <<"GET", "POST">>

extractMethods(process) ==
    IF ListTruthy(process.httpMethods) THEN process.httpMethods.items
    ELSE IF ListTruthy(process.operations)
         THEN Map(LAMBDA m : Or(m, "POST"), process.operations.items)
         ELSE <<"POST">>

BoomiService(process) ==
    Service(Or(process.name, process.processId), BoomidetermineServiceType(process),
            "Boomi", process.endpoint, Some(extractMethods(process)),
            process.description, process.inputSchema, process.outputSchema)

\* a map record that falls back to the placeholder of the XML extractors
BoomiTransformationSentinel(map) ==
    Transformation(map.name, "Boomi Map", Or(map.sourceProfile, "auto-detected"),
                   Or(map.targetProfile, "auto-detected"), map.mappingRules)

BoomiTransformation(map) ==
    Transformation(map.name, "Boomi Map", map.sourceProfile, map.targetProfile,
                   map.mappingRules)

\* the loop body reads process.name first, extractMethods comes last
ProcessError(process) ==
    IF IsNull(process) THEN NullRead("name") ELSE extractMethodsError(process)

\* the error caught by the catch block of parse
BoomiparseError(c) ==
    IF ~isJsonContent(c) THEN NoError
    ELSE IF c.doc.shape = "null" THEN NullRead("processes")
    ELSE FirstError(<<
        IF "processes" \in c.doc.nonlist THEN NotIterable("boomiConfig.processes")
        ELSE FirstError(Map(ProcessError, c.doc.processes)),
        IF "connectors" \in c.doc.nonlist THEN NotIterable("boomiConfig.connectors")
        ELSE FirstError(Map(EntryError, c.doc.connectors)),
        IF "maps" \in c.doc.nonlist THEN NotIterable("boomiConfig.maps")
        ELSE FirstError(Map(EntryError, c.doc.maps))>>)

\* a parse that calls JSON.parse without asking isJsonContent first: text
\* that is not JSON ends in the catch block
BoomiparseStrict(f, c, t) ==
    IF ~isJsonContent(c) THEN Failed("Boomi", "Unexpected token in JSON")
    ELSE IF BoomiparseError(c) # NoError THEN Failed("Boomi", BoomiparseError(c))
    ELSE Returned(ParseResult("Boomi", f, t, Map(BoomiService, c.doc.processes),
                              <<>>, <<>>))

Boomiparse(f, c, t) ==
    IF BoomiparseError(c) # NoError THEN Failed("Boomi", BoomiparseError(c))
    ELSE IF isJsonContent(c)
    THEN Returned(ParseResult("Boomi", f, t,
             IF "processes" \in c.doc.keys
             THEN Map(BoomiService, c.doc.processes) ELSE <<>>,
             IF "connectors" \in c.doc.keys
             THEN Map(LAMBDA connector :
                      Proxy(connector.name, connector.serviceUri, connector.endpointUri,
                            Undefined, connector), c.doc.connectors)
             ELSE <<>>,
             IF "maps" \in c.doc.keys
             THEN Map(BoomiTransformation, c.doc.maps) ELSE <<>>))
    ELSE Returned(ParseResult("Boomi", f, t, <<>>, <<>>, <<>>))

(***************************************************************************)
(* ParserRegistry.                                                         *)
(***************************************************************************)
parse(p, f, c, t) ==
    CASE p = "OSB" -> OSBparse(f, c, t)
      [] p = "Boomi" -> Boomiparse(f, c, t)
      [] p = "Tibco" -> Tibcoparse(f, c, t)
      [] p = "MuleSoft" -> MuleSoftparse(f, c, t)

\* the list with MuleSoft registered before Tibco
RegistryParsersMuleFirst == <<"OSB", "Boomi", "MuleSoft", "Tibco">>

RegistryParsers == <<"OSB", "Boomi", "Tibco", "MuleSoft">>

\* a loop that keeps the last accepting parser instead of returning the first
RECURSIVE DetectFromLast(_, _, _, _)
DetectFromLast(ps, i, f, c) ==
    IF i > Len(ps) THEN "Unknown"
    ELSE LET later == DetectFromLast(ps, i + 1, f, c) IN
         IF later # "Unknown" THEN later
         ELSE IF canParse(ps[i], f, c) THEN ps[i] ELSE "Unknown"

RECURSIVE DetectFrom(_, _, _, _)
DetectFrom(ps, i, f, c) ==
    IF i > Len(ps) THEN "Unknown"
    ELSE IF canParse(ps[i], f, c) THEN ps[i]
    ELSE DetectFrom(ps, i + 1, f, c)

detectPlatform(ps, f, c) == DetectFrom(ps, 1, f, c)

\* a loop that falls back to an empty result instead of throwing
RECURSIVE ParseFromFallback(_, _, _, _, _)
ParseFromFallback(ps, i, f, c, t) ==
    IF i > Len(ps) THEN Returned(ParseResult("Unknown", f, t, <<>>, <<>>, <<>>))
    ELSE IF canParse(ps[i], f, c) THEN parse(ps[i], f, c, t)
    ELSE ParseFromFallback(ps, i + 1, f, c, t)

RECURSIVE ParseFrom(_, _, _, _, _)
ParseFrom(ps, i, f, c, t) ==
    IF i > Len(ps) THEN Thrown("No parser found for file: ", f)
    ELSE IF canParse(ps[i], f, c) THEN parse(ps[i], f, c, t)
    ELSE ParseFrom(ps, i + 1, f, c, t)

parseFile(ps, f, c, t) == ParseFrom(ps, 1, f, c, t)

(***************************************************************************)
(* The artifacts the registry is called with.                              *)
(***************************************************************************)
SeqsUpTo(S, n) == UNION {[1..k -> S] : k \in 0..n}

\* a file name is the list of its parts between dots: a.xml is <<"a", "xml">>
RegistryFilenames ==
    {<<"a", "xml">>, <<"a", "XML">>, <<"xml">>, <<"a", "jar">>, <<"a", "ear">>,
     <<"a", "zip">>, <<"a", "json">>, <<"a", "process">>, <<"a", "txt">>,
     <<"a">>, <<"a", "">>}

RegistryTokens ==
    {ProxyOpen("A"), PdOpen("A"), T0("MuleRoot"), Elem("note", "x"),
     Text("business-service"), Text("tibco.plugin"), Text("mule-config"), T0("Pad")}

Process(name, processId, connectorType, httpMethods, operations) ==
    [name |-> name, processId |-> processId, connectorType |-> connectorType,
     endpoint |-> Undefined, httpMethods |-> httpMethods, operations |-> operations,
     description |-> Undefined, inputSchema |-> Undefined, outputSchema |-> Undefined]

Flow(name, source) ==
    [name |-> name, source |-> source, endpoint |-> Undefined,
     description |-> Undefined, inputSchema |-> Undefined, outputSchema |-> Undefined]

\* an entry of connectors: Boomi reads serviceUri and endpointUri, MuleSoft
\* path and host
Connector(name, serviceUri, endpointUri, path, host) ==
    [name |-> name, serviceUri |-> serviceUri, endpointUri |-> endpointUri,
     path |-> path, host |-> host]

BoomiMap(name, sourceProfile, targetProfile) ==
    [name |-> name, sourceProfile |-> sourceProfile, targetProfile |-> targetProfile,
     mappingRules |-> Undefined]

MuleTransform(name, type, inputMimeType, outputMimeType) ==
    [name |-> name, type |-> type, inputMimeType |-> inputMimeType,
     outputMimeType |-> outputMimeType, script |-> Undefined]

\* the object {key: entries}, with "muleVersion": "4" as well when mule is TRUE
ListDoc(key, entries, mule) ==
    [[NoDoc EXCEPT !.keys = IF mule THEN {key, "muleVersion"} ELSE {key}]
        EXCEPT ![key] = entries]

\* the object {key: {}}
NonListDoc(key, mule) ==
    [NoDoc EXCEPT !.keys = IF mule THEN {key, "muleVersion"} ELSE {key},
                  !.nonlist = {key}]

BoomiDoc(processes) == [NoDoc EXCEPT !.keys = {"processes"}, !.processes = processes]

MuleDoc(flows) == [NoDoc EXCEPT !.keys = {"flows"}, !.flows = flows]

RegistryDocs ==
    {NoDoc, NullDoc, MuleDoc(<<>>), [NoDoc EXCEPT !.keys = {"muleVersion"}],
     BoomiDoc(<<Process("A", "P1", Undefined, NoList, NoList)>>)}

RegistryContents ==
    {TextContent(toks) : toks \in SeqsUpTo(RegistryTokens, MaxLenRegistry)}
        \cup {JsonContent(d) : d \in RegistryDocs}

(***************************************************************************)
(* State machine: an artifact is chosen, then the registry is called on it *)
(* any number of times, in any order.                                      *)
(***************************************************************************)
\* the record store after construction: two templates, every counter at its
\* first free id
MemStorage ==
    [uploadedFiles |-> <<>>,
     services |-> <<>>,
     proxyServices |-> <<>>,
     transformations |-> <<>>,
     documentTemplates |->
        (1 :> [id |-> 1, name |-> "Standard Service Design Document", isDefault |-> TRUE]
         @@ 2 :> [id |-> 2, name |-> "Enterprise Integration Specification", isDefault |-> FALSE]),
     generatedDocuments |-> <<>>,
     currentFileId |-> 1,
     currentServiceId |-> 1,
     currentProxyServiceId |-> 1,
     currentTransformationId |-> 1,
     currentTemplateId |-> 3,
     currentDocumentId |-> 1]

InitCalls ==
    /\ parsers = RegistryParsers
    /\ now = 0
    /\ detections = <<>>
    /\ outcomes = <<>>
    /\ calls = <<>>
    /\ store = MemStorage
    /\ jobs = <<>>

Init ==
    /\ InitCalls
    /\ filename \in RegistryFilenames
    /\ content \in RegistryContents

DetectPlatform ==
    /\ now < MaxCalls
    /\ detections' = Append(detections, detectPlatform(parsers, filename, content))
    /\ now' = now + 1
    /\ UNCHANGED <<parsers, filename, content, outcomes, calls, store, jobs>>

ParseFile ==
    /\ now < MaxCalls
    /\ outcomes' = Append(outcomes, parseFile(parsers, filename, content, now))
    /\ now' = now + 1
    /\ UNCHANGED <<parsers, filename, content, detections, calls, store, jobs>>

Next == DetectPlatform \/ ParseFile

Spec == Init /\ [][Next]_vars

TypeOK ==
    /\ parsers = RegistryParsers
    /\ now \in 0..MaxCalls
    /\ Len(detections) + Len(outcomes) = now
    /\ \A i \in 1..Len(detections) : detections[i] \in {"OSB", "Boomi", "Tibco", "MuleSoft", "Unknown"}
    /\ \A i \in 1..Len(outcomes) : outcomes[i].status \in {"returned", "thrown"}

(***************************************************************************)
(* Families of artifacts for the extractors.                               *)
(***************************************************************************)
\* OSB configuration files: proxy-service blocks
OSBTokens ==
    {ProxyOpen("A"), ProxyOpen("a"), ProxyOpen("B"), T0("ProxyClose"), T0("Rest"),
     HttpMethod("get"), HttpMethod("")}

InitOSB ==
    /\ InitCalls
    /\ filename \in {<<"a", "xml">>}
    /\ content \in {TextContent(toks) : toks \in SeqsUpTo(OSBTokens, MaxLenOSB)}

SpecOSB == InitOSB /\ [][Next]_vars

\* MuleSoft configuration files: a <mule> root element and its body
MuleBodyTokens ==
    {FlowOpen("OrderFlow"), FlowOpen("B"), T0("FlowClose"),
     Listener(Undefined, "/orders", "GET,POST"),
     Listener(Undefined, "/soap/orders", "GET,POST"),
     Listener("cfg", Undefined, Undefined)}

InitMule ==
    /\ InitCalls
    /\ filename \in {<<"mulesoft", "xml">>, <<"mulesoft", "txt">>}
    /\ content \in {TextContent(<<T0("MuleRoot")>> \o body \o <<T0("MuleClose")>>) :
                       body \in SeqsUpTo(MuleBodyTokens, MaxBodyMule)}

SpecMule == InitMule /\ [][Next]_vars

\* JSON configuration files: Boomi processes and MuleSoft flows
ProcessEntries ==
    {Process(n, id, ct, NoList, NoList) :
        n \in {Undefined, "", "A"}, id \in {Undefined, "P1"}, ct \in {Undefined, "SOAP"}}

HttpSource == [k |-> "obj", type |-> "http", path |-> "/orders", allowedMethods |-> NoList]

FlowEntries == {Flow(n, src) : n \in {Undefined, "A"}, src \in {NoSource, HttpSource}}

JsonDocs ==
    {NoDoc} \cup {BoomiDoc(ps) : ps \in SeqsUpTo(ProcessEntries, MaxEntries)}
            \cup {MuleDoc(fs) : fs \in SeqsUpTo(FlowEntries, MaxEntries)}

InitJson ==
    /\ InitCalls
    /\ filename \in {<<"a", "json">>, <<"a", "txt">>}
    /\ content \in {JsonContent(d) : d \in JsonDocs}

SpecJson == InitJson /\ [][Next]_vars

\* JSON documents that parse but are not what the extractors expect: null, a
\* scalar, a key whose value is not a list, a list with a null entry
DegenerateEntries ==
    [processes |-> {NullEntry, Process("A", "P1", Undefined, NoList, NoList),
                    Process("A", "P1", Undefined, NoList, Str("run"))},
     connectors |-> {NullEntry, Connector("C", Undefined, Undefined, Undefined, Undefined)},
     maps |-> {NullEntry, BoomiMap("M", Undefined, Undefined)},
     flows |-> {NullEntry, Flow("A", NoSource)},
     transformations |-> {NullEntry, MuleTransform("T", Undefined, Undefined, Undefined)}]

DegenerateDocs ==
    {NoDoc, NullDoc, ScalarDoc}
        \cup {NonListDoc(key, mule) : key \in DOMAIN DegenerateEntries, mule \in BOOLEAN}
        \cup UNION {{ListDoc(key, es, mule) :
                        es \in SeqsUpTo(DegenerateEntries[key], MaxEntries),
                        mule \in BOOLEAN} : key \in DOMAIN DegenerateEntries}

InitDegenerate ==
    /\ InitCalls
    /\ filename \in {<<"a", "json">>, <<"a", "txt">>}
    /\ content \in {JsonContent(d) : d \in DegenerateDocs}

SpecDegenerate == InitDegenerate /\ [][Next]_vars

\* configuration files of the four platforms, each under a file name that
\* the registry routes to the platform's extractor
ExtractOSBTokens ==
    {ProxyOpen("A"), T0("ProxyClose"), T0("Rest"), Elem("endpoint-uri", "/api/orders"),
     T0("Xsl")}

ExtractTibcoTokens ==
    {PdOpen("A"), T0("PdClose"), Config("/orders?wsdl"), Elem("endpoint", "/soap/api/x"),
     Method("get"), T0("Receiver"), T0("Mapper")}

ExtractMuleTokens ==
    {FlowOpen("A"), T0("FlowClose"), Listener(Undefined, "/orders?wsdl", "get, put"),
     Listener("cfg", "/soap/orders", Undefined), T0("Dw")}

ExtractProcesses ==
    {Process("A", Undefined, ct, hm, ops) :
        ct \in {Undefined, "SOAP", "ftp"},
        hm \in {NoList, Arr(<<"get">>)},
        ops \in {NoList, Arr(<<Undefined, "put">>)}}

ExtractFlows ==
    {Flow("A", NoSource)}
        \cup {Flow("A", [k |-> "obj", type |-> ty, path |-> Undefined,
                         allowedMethods |-> am]) :
                 ty \in {"soap", "SOAP", "jms"}, am \in {NoList, Str("get")}}

ExtractConnectors ==
    {Connector(n, Undefined, Undefined, Undefined, Undefined) : n \in {Undefined, "C"}}

ExtractMaps == {BoomiMap("M", sp, tp) : sp \in {Undefined, "P"}, tp \in {Undefined, "Q"}}

ExtractTransforms ==
    {MuleTransform("T", Undefined, im, om) :
        im \in {Undefined, "application/json"}, om \in {Undefined, "application/xml"}}

Artifact(f, c) == [filename |-> f, content |-> c]

ExtractArtifacts ==
    {Artifact(<<"a", "xml">>, TextContent(toks)) :
        toks \in SeqsUpTo(ExtractOSBTokens, MaxLenExtract)}
    \cup {Artifact(<<"a", "process">>, TextContent(toks)) :
        toks \in SeqsUpTo(ExtractTibcoTokens, MaxLenExtract)}
    \cup {Artifact(<<"a", "txt">>, TextContent(<<T0("MuleRoot")>> \o toks)) :
        toks \in SeqsUpTo(ExtractMuleTokens, MaxLenExtract)}
    \cup {Artifact(<<"a", "json">>, JsonContent(ListDoc("processes", es, FALSE))) :
        es \in SeqsUpTo(ExtractProcesses, MaxEntries)}
    \cup {Artifact(<<"a", "json">>, JsonContent(ListDoc("connectors", es, FALSE))) :
        es \in SeqsUpTo(ExtractConnectors, MaxEntries)}
    \cup {Artifact(<<"a", "json">>, JsonContent(ListDoc("maps", es, FALSE))) :
        es \in SeqsUpTo(ExtractMaps, MaxEntries)}
    \cup {Artifact(<<"a", "txt">>, JsonContent(ListDoc("flows", es, TRUE))) :
        es \in SeqsUpTo(ExtractFlows, MaxEntries)}
    \cup {Artifact(<<"a", "txt">>, JsonContent(ListDoc("connectors", es, TRUE))) :
        es \in SeqsUpTo(ExtractConnectors, MaxEntries)}
    \cup {Artifact(<<"a", "txt">>, JsonContent(ListDoc("transformations", es, TRUE))) :
        es \in SeqsUpTo(ExtractTransforms, MaxEntries)}

InitExtract ==
    /\ InitCalls
    /\ \E a \in ExtractArtifacts :
          /\ filename = a.filename
          /\ content = a.content

SpecExtract == InitExtract /\ [][Next]_vars

\* contents for the sniffer: a prolog, blanks, 1000 bytes without '<', a tag,
\* markers in plain text
SniffTokens ==
    {T0("Prolog"), T0("Pad"), Text(" "), Elem("note", "x"), Text("tibco.plugin"),
     Text("\"flows\"")}

InitSniff ==
    /\ InitCalls
    /\ filename \in {<<"a", "txt">>}
    /\ content \in {TextContent(toks) : toks \in SeqsUpTo(SniffTokens, MaxLenSniff)}
                    \cup {JsonContent(MuleDoc(<<>>)), JsonContent(NoDoc)}

SpecSniff == InitSniff /\ [][Next]_vars

(***************************************************************************)
(* Properties of the registry.                                             *)
(***************************************************************************)
\* C1: detectPlatform tries the matchers in the order OSB, Boomi, Tibco,
\* MuleSoft and returns the platform of the first one that accepts; it
\* returns "Unknown" exactly when none accepts.
C1_FirstMatchWins ==
    \A k \in 1..Len(detections) :
        LET d == detections[k]
            order == <<"OSB", "Boomi", "Tibco", "MuleSoft">>
            acc == {i \in 1..4 : canParse(order[i], filename, content)} IN
        /\ (d = "Unknown") <=> (acc = {})
        /\ \A i \in acc : (\A j \in acc : i <= j) => d = order[i]

C1_Witness ==
    /\ Len(detections) > 0
    /\ detections[1] = "OSB"
    /\ TibcocanParse(filename, content)
    /\ MuleSoftcanParse(filename, content)

\* C2: parseFile ends as the extractor paired with the first accepting
\* matcher ends, with its result; it throws the no-parser-found error
\* carrying the file name if and only if no matcher accepts, and then
\* produces no ParseResult.
C2_ParseFileOutcome ==
    \A k \in 1..Len(outcomes) :
        LET o == outcomes[k]
            none == /\ ~OSBcanParse(filename, content)
                    /\ ~BoomicanParse(filename, content)
                    /\ ~TibcocanParse(filename, content)
                    /\ ~MuleSoftcanParse(filename, content) IN
        /\ none <=> (/\ o.status = "thrown"
                     /\ o.error = "No parser found for file: "
                     /\ o.errorFile = filename)
        /\ none => o.result = <<>>
        /\ ~none =>
             LET t == IF o.status = "returned"
                      THEN o.result[1].metadata.parsedAt ELSE 0 IN
             o = IF OSBcanParse(filename, content) THEN OSBparse(filename, content, t)
                 ELSE IF BoomicanParse(filename, content) THEN Boomiparse(filename, content, t)
                 ELSE IF TibcocanParse(filename, content) THEN Tibcoparse(filename, content, t)
                 ELSE MuleSoftparse(filename, content, t)

C2_Witness ==
    /\ Len(outcomes) > 0
    /\ outcomes[1].status = "thrown"
    /\ outcomes[1].errorFile = <<"a", "txt">>
    /\ content.kind = "text" /\ Len(content.toks) > 0

\* C3: for every platform P, an artifact whose content contains one of P's
\* signature markers is detected as P, under any file name, and parseFile
\* does not throw the no-parser-found error for it.
C3_MarkerImpliesPlatform ==
    LET markers == [p \in {"OSB", "Boomi", "Tibco", "MuleSoft"} |->
            CASE p = "OSB" -> {"xmlns:osb", "proxy-service", "business-service"}
              [] p = "Boomi" -> {"\"componentType\"", "\"processId\"", "\"boomi"}
              [] p = "Tibco" -> {"xmlns:tibco", "pd:ProcessDefinition", "tibco.plugin"}
              [] p = "MuleSoft" -> {"mule xmlns", "http://www.mulesoft.org", "mule-config",
                                    "\"muleVersion\"", "\"flows\"", "\"mule"}] IN
    \A p \in DOMAIN markers :
        (\E m \in markers[p] : Includes(content, m)) =>
            /\ \A k \in 1..Len(detections) : detections[k] = p
            /\ \A k \in 1..Len(outcomes) : outcomes[k].status = "returned"

\* C4: for the file mulesoft.xml holding a <mule> document with one
\* <flow name=N> and one <http:listener path=P allowedMethods="GET,POST"/>,
\* parseFile returns exactly one service {N, REST, MuleSoft, P, [GET, POST]}
\* and exactly one proxy record {HTTP_Listener_1, serviceUri P}.
C4_MuleScenario ==
    LET toks == content.toks IN
    ( /\ filename = <<"mulesoft", "xml">>
      /\ content.kind = "text" /\ Len(toks) = 5
      /\ toks[1].t = "MuleRoot" /\ toks[2].t = "FlowOpen"
      /\ toks[3].t = "Listener" /\ toks[3].v # Undefined /\ toks[3].w = "GET,POST"
      /\ toks[4].t = "FlowClose" /\ toks[5].t = "MuleClose" )
    => \A k \in 1..Len(outcomes) :
          /\ outcomes[k].status = "returned"
          /\ LET r == outcomes[k].result[1] IN
             /\ Len(r.services) = 1
             /\ r.services[1].name = toks[2].n
             /\ r.services[1].type = "REST"
             /\ r.services[1].platform = "MuleSoft"
             /\ r.services[1].endpoint = toks[3].v
             /\ r.services[1].methods = Some(<<"GET", "POST">>)
             /\ Len(r.proxyServices) = 1
             /\ r.proxyServices[1].name = "HTTP_Listener_1"
             /\ r.proxyServices[1].serviceUri = toks[3].v

\* C5: an .xml artifact whose content has both a Tibco marker
\* (pd:ProcessDefinition) and a MuleSoft marker (mule xmlns) and no OSB marker
\* is detected as Tibco, and parseFile returns the Tibco extractor's result.
C5_TibcoBeforeMule ==
    ( /\ Len(filename) >= 2
      /\ filename[Len(filename)] \in {"xml", "XML"}
      /\ Includes(content, "pd:ProcessDefinition")
      /\ Includes(content, "mule xmlns")
      /\ \A m \in {"xmlns:osb", "proxy-service", "business-service"} : ~Includes(content, m) )
    => /\ \A k \in 1..Len(detections) : detections[k] = "Tibco"
       /\ \A k \in 1..Len(outcomes) :
             /\ outcomes[k].status = "returned"
             /\ LET r == outcomes[k].result[1] IN
                /\ outcomes[k] = Tibcoparse(filename, content, r.metadata.parsedAt)
                /\ outcomes[k] # MuleSoftparse(filename, content, r.metadata.parsedAt)

C5_Witness ==
    /\ filename = <<"a", "xml">>
    /\ content.toks = <<PdOpen("A"), T0("MuleRoot")>>
    /\ Len(detections) > 0 /\ Len(outcomes) > 0
    /\ outcomes[1].result[1].metadata.platform = "Tibco"

\* C6: an artifact whose extension is in no allow-list and whose content
\* carries no platform marker is detected as "Unknown", and parseFile throws
\* the no-parser-found error for it.
C6_UnknownFallback ==
    ( /\ ToLowerCase(filename[Len(filename)]) \notin {"ear", "jar", "zip", "json", "xml", "process"}
      /\ \A m \in {"xmlns:osb", "proxy-service", "business-service",
                   "\"componentType\"", "\"processId\"", "\"boomi",
                   "xmlns:tibco", "pd:ProcessDefinition", "tibco.plugin",
                   "mule xmlns", "http://www.mulesoft.org", "mule-config",
                   "\"muleVersion\"", "\"flows\"", "\"mule"} : ~Includes(content, m) )
    => /\ \A k \in 1..Len(detections) : detections[k] = "Unknown"
       /\ \A k \in 1..Len(outcomes) :
             /\ outcomes[k].status = "thrown"
             /\ outcomes[k].error = "No parser found for file: "
             /\ outcomes[k].errorFile = filename

C6_Witness ==
    /\ filename = <<"a", "txt">>
    /\ content.toks = <<Elem("note", "x")>>
    /\ Len(detections) > 0 /\ detections[1] = "Unknown"
    /\ Len(outcomes) > 0 /\ outcomes[1].status = "thrown"

C8_ServiceInvariant ==
    \A k \in 1..Len(outcomes) :
        outcomes[k].status = "returned" =>
            \A i \in 1..Len(outcomes[k].result[1].services) :
                LET svc == outcomes[k].result[1].services[i] IN
                /\ svc.name # Undefined /\ svc.name # ""
                /\ svc.type \in {"REST", "SOAP", "JMS", "FILE"}
                /\ svc.platform \in {"OSB", "Boomi", "Tibco", "MuleSoft", "Unknown"}

\* C9: for a Boomi JSON document the result holds exactly one service per
\* entry of processes that has a name; an entry without a name is skipped,
\* and no error is raised.
C9_NamelessSkipped ==
    ( /\ filename = <<"a", "json">>
      /\ content.kind = "json"
      /\ "processes" \in content.doc.keys
      /\ \E i \in 1..Len(content.doc.processes) : Truthy(content.doc.processes[i].name)
      /\ \E i \in 1..Len(content.doc.processes) : content.doc.processes[i].name = Undefined )
    => \A k \in 1..Len(outcomes) :
          /\ outcomes[k].status = "returned"
          /\ LET ps == content.doc.processes
                 named == SelectSeq(ps, LAMBDA e : Truthy(e.name))
                 svcs == outcomes[k].result[1].services IN
             /\ Len(svcs) = Len(named)
             /\ \A i \in 1..Len(svcs) : svcs[i].name = named[i].name

EmptyResult(r, platform) ==
    /\ r.services = <<>> /\ r.proxyServices = <<>> /\ r.transformations = <<>>
    /\ r.metadata.platform = platform
    /\ r.metadata.filename = filename
    /\ r.metadata.parsedAt \in 0..(MaxCalls - 1)
    /\ r.metadata.serviceCount = 0
    /\ r.metadata.proxyServiceCount = 0
    /\ r.metadata.transformationCount = 0

HasConstructs(platform, toks) ==
    \E i \in 1..Len(toks) :
        CASE platform = "OSB" ->
                (toks[i].t = "ProxyOpen" /\ toks[i].n # Undefined) \/ toks[i].t = "Xsl"
          [] platform = "Tibco" ->
                (toks[i].t = "PdOpen" /\ toks[i].n # Undefined)
                    \/ toks[i].t \in {"Receiver", "Mapper"}
          [] platform = "MuleSoft" ->
                (toks[i].t = "FlowOpen" /\ toks[i].n # Undefined)
                    \/ toks[i].t \in {"Listener", "Dw"}
          [] OTHER -> FALSE

\* C12: when a matcher accepts an artifact whose content is text (XML of
\* another vocabulary, malformed XML, archive bytes) without any construct of
\* the accepting platform, parseFile raises no error and returns a result
\* with empty services, proxyServices and transformations and metadata with
\* the platform, the file name, the time and zero counts.
C12_EmptyOnNoConstructs ==
    LET p == detectPlatform(parsers, filename, content) IN
    (p # "Unknown" /\ content.kind = "text" /\ ~HasConstructs(p, content.toks))
    => \A k \in 1..Len(outcomes) :
          /\ outcomes[k].status = "returned"
          /\ EmptyResult(outcomes[k].result[1], p)
          /\ outcomes[k].result[1].metadata.parsedAt <= now

C12_Witness ==
    /\ filename = <<"a", "xml">>
    /\ content = TextContent(<<Elem("note", "x"), T0("MuleRoot")>>)
    /\ Len(outcomes) = 2
    /\ outcomes[2].status = "returned"
    /\ outcomes[2].result[1].metadata.platform = "Tibco"
    /\ outcomes[2].result[1].metadata.parsedAt = 1
    /\ outcomes[2].result[1].services = <<>>

\* C13: for content that parses as JSON and that a matcher accepts,
\* extraction is never aborted: whatever the document is (null, a scalar, an
\* object whose processes, flows, connectors or maps value is not a list, a
\* list with a null entry), parseFile returns a result and throws nothing.
C13_SoftDegradation ==
    (content.kind = "json" /\ detectPlatform(parsers, filename, content) # "Unknown")
    => \A k \in 1..Len(outcomes) : outcomes[k].status = "returned"

(***************************************************************************)
(* Properties of the matchers and of the content sniffer.                  *)
(***************************************************************************)
AllowList(platform) ==
    CASE platform = "OSB" -> {"ear", "jar"}
      [] platform = "Boomi" -> {"zip", "json"}
      [] platform = "Tibco" -> {"ear", "xml", "process"}
      [] platform = "MuleSoft" -> {"jar", "xml", "json"}

Markers(platform) ==
    CASE platform = "OSB" -> {"xmlns:osb", "proxy-service", "business-service"}
      [] platform = "Boomi" -> {"\"componentType\"", "\"processId\"", "\"boomi"}
      [] platform = "Tibco" -> {"xmlns:tibco", "pd:ProcessDefinition", "tibco.plugin"}
      [] platform = "MuleSoft" -> {"mule xmlns", "http://www.mulesoft.org", "mule-config",
                                  "\"muleVersion\"", "\"flows\"", "\"mule"}

\* C14: each of the four matchers, taken alone, accepts a file whose
\* extension is in its allow-list whatever the content, and accepts a file
\* whose extension is not in its allow-list if and only if the content
\* carries one of its platform's markers.
C14_MatcherPolicy ==
    \A p \in {"OSB", "Boomi", "Tibco", "MuleSoft"} :
        LET ext == extractFileExtension(filename) IN
        /\ ext \in AllowList(p) => canParse(p, filename, content)
        /\ ext \notin AllowList(p) =>
              (canParse(p, filename, content)
                  <=> \E m \in Markers(p) : Includes(content, m))

FirstBlock(toks, open, close, name) ==
    LET same == {q \in 1..Len(toks) :
                    /\ toks[q].t = open /\ toks[q].n # Undefined
                    /\ ToLowerCase(toks[q].n) = ToLowerCase(name)}
        s == CHOOSE x \in same : \A y \in same : x <= y
        ends == {e \in (s + 1)..Len(toks) : toks[e].t = close} IN
    IF same = {} \/ ends = {} THEN <<>>
    ELSE SubSeq(toks, s, CHOOSE x \in ends : \A y \in ends : x <= y)

\* the type an endpoint stands for; wsdl tells whether "wsdl" counts as a
\* sign of SOAP
EndpointType(endpoint, wsdl) ==
    IF endpoint \in {"/api/orders", "/rest/orders", "/soap/api/x"} THEN "REST"
    ELSE IF endpoint = "/soap/orders" \/ (wsdl /\ endpoint = "/orders?wsdl") THEN "SOAP"
    ELSE "REST"

MuleSourceType(flow) ==
    IF flow.source.k # "obj" THEN "REST"
    ELSE CASE flow.source.type = "http" -> "REST"
           [] flow.source.type = "soap" -> "SOAP"
           [] flow.source.type = "jms" -> "JMS"
           [] flow.source.type = "file" -> "FILE"
           [] OTHER -> "REST"

BoomiConnectorType(process) ==
    CASE process.connectorType \in {"SOAP", "soap", "web service"} -> "SOAP"
      [] process.connectorType \in {"jms", "JMS"} -> "JMS"
      [] process.connectorType \in {"file", "ftp", "sftp"} -> "FILE"
      [] OTHER -> "REST"

\* the services of a returned result, with what they were extracted from
Platform(o) == o.result[1].metadata.platform

Services(o) == o.result[1].services

C17_DefaultGetPost ==
    \A k \in 1..Len(outcomes) :
        outcomes[k].status = "returned" =>
            LET svcs == Services(outcomes[k])
                p == Platform(outcomes[k])
                toks == content.toks IN
            \A i \in 1..Len(svcs) :
                LET bare ==
                      CASE p = "Tibco" ->
                              \A x \in 1..Len(FirstBlock(toks, "PdOpen", "PdClose", svcs[i].name)) :
                                  FirstBlock(toks, "PdOpen", "PdClose", svcs[i].name)[x].t # "Method"
                        [] p = "MuleSoft" /\ content.kind = "text" ->
                              \A x \in 1..Len(FirstBlock(toks, "FlowOpen", "FlowClose", svcs[i].name)) :
                                  LET tok == FirstBlock(toks, "FlowOpen", "FlowClose", svcs[i].name)[x] IN
                                  ~(tok.t = "Listener" /\ tok.w # Undefined)
                        [] p = "MuleSoft" /\ content.kind = "json" ->
                              \/ content.doc.flows[i].source.k # "obj"
                              \/ content.doc.flows[i].source.allowedMethods = NoList
                        [] p = "Boomi" ->
                              /\ content.doc.processes[i].httpMethods = NoList
                              /\ content.doc.processes[i].operations = NoList
                        [] OTHER -> FALSE IN
                bare => svcs[i].methods = Some(<<"GET", "POST">>)

\* C17 (amended): a Tibco or MuleSoft service whose source construct carries
\* no method metadata has methods exactly [GET, POST], where the construct
\* of an XML service is the first block for its name, up to the next end
\* tag; an XML service for whose name there is no such block has no methods
\* at all; a Boomi service whose process has neither httpMethods nor
\* operations has methods exactly [POST].
C17_DefaultByExtractor ==
    \A k \in 1..Len(outcomes) :
        outcomes[k].status = "returned" =>
            LET svcs == Services(outcomes[k])
                p == Platform(outcomes[k])
                toks == content.toks IN
            \A i \in 1..Len(svcs) :
                CASE p = "Tibco" ->
                        LET b == FirstBlock(toks, "PdOpen", "PdClose", svcs[i].name) IN
                        IF b = <<>> THEN svcs[i].methods = None
                        ELSE (\A x \in 1..Len(b) : b[x].t # "Method")
                                 => svcs[i].methods = Some(<<"GET", "POST">>)
                  [] p = "MuleSoft" /\ content.kind = "text" ->
                        LET b == FirstBlock(toks, "FlowOpen", "FlowClose", svcs[i].name) IN
                        IF b = <<>> THEN svcs[i].methods = None
                        ELSE (\A x \in 1..Len(b) : ~(b[x].t = "Listener" /\ b[x].w # Undefined))
                                 => svcs[i].methods = Some(<<"GET", "POST">>)
                  [] p = "MuleSoft" /\ content.kind = "json" ->
                        (\/ content.doc.flows[i].source.k # "obj"
                         \/ content.doc.flows[i].source.allowedMethods = NoList)
                            => svcs[i].methods = Some(<<"GET", "POST">>)
                  [] p = "Boomi" ->
                        (/\ content.doc.processes[i].httpMethods = NoList
                         /\ content.doc.processes[i].operations = NoList)
                            => svcs[i].methods = Some(<<"POST">>)
                  [] OTHER -> TRUE

C17_Witness ==
    /\ filename = <<"a", "json">>
    /\ content = JsonContent(ListDoc("processes",
                     <<Process("A", Undefined, "SOAP", NoList, NoList)>>, FALSE))
    /\ Len(outcomes) > 0
    /\ outcomes[1].status = "returned"
    /\ Platform(outcomes[1]) = "Boomi"
    /\ Services(outcomes[1])[1].methods = Some(<<"POST">>)

Proxies(o) == o.result[1].proxyServices

Transformations(o) == o.result[1].transformations

\* C18: every proxy record of every result has a name; the records made
\* from HTTP listeners and HTTP receivers, which have no name of their own,
\* are named HTTP_Listener_1..n and HTTP_Receiver_1..n in the order of the
\* constructs, and a connector of a JSON source has a name as well.
C18_ProxyNaming ==
    \A k \in 1..Len(outcomes) :
        outcomes[k].status = "returned" =>
            LET ps == Proxies(outcomes[k])
                p == Platform(outcomes[k])
                count(t) == Cardinality({x \in 1..Len(content.toks) : content.toks[x].t = t}) IN
            /\ \A i \in 1..Len(ps) : ps[i].name # Undefined /\ ps[i].name # ""
            /\ (p = "MuleSoft" /\ content.kind = "text") =>
                  /\ Len(ps) = count("Listener")
                  /\ \A i \in 1..Len(ps) : ps[i].name = "HTTP_Listener_" \o ToString(i)
            /\ p = "Tibco" =>
                  /\ Len(ps) = count("Receiver")
                  /\ \A i \in 1..Len(ps) : ps[i].name = "HTTP_Receiver_" \o ToString(i)
            /\ content.kind = "json" => Len(ps) = Len(content.doc.connectors)

\* C19 (as stated): every transformation record whose source construct
\* gives no schema has sourceSchema and targetSchema equal to "auto-detected",
\* never undefined, for XSLT, DataWeave, Tibco Mapper and Boomi map records
\* alike.
C19_SchemaSentinel ==
    \A k \in 1..Len(outcomes) :
        outcomes[k].status = "returned" =>
            LET ts == Transformations(outcomes[k]) IN
            \A i \in 1..Len(ts) :
                /\ ts[i].sourceSchema # Undefined /\ ts[i].targetSchema # Undefined
                /\ LET given ==
                          /\ content.kind = "json"
                          /\ IF Platform(outcomes[k]) = "Boomi"
                             THEN \/ content.doc.maps[i].sourceProfile # Undefined
                                  \/ content.doc.maps[i].targetProfile # Undefined
                             ELSE \/ content.doc.transformations[i].inputMimeType # Undefined
                                  \/ content.doc.transformations[i].outputMimeType # Undefined IN
                   ~given => /\ ts[i].sourceSchema = "auto-detected"
                             /\ ts[i].targetSchema = "auto-detected"

\* C19 (amended): the records the XML extractors make (XSLT, DataWeave,
\* Tibco Mapper) always have sourceSchema and targetSchema equal to
\* "auto-detected"; a Boomi map record has the map's sourceProfile and
\* targetProfile and a MuleSoft JSON record the transformation's
\* inputMimeType and outputMimeType, each undefined when the entry has none.
C19_SchemaBySource ==
    \A k \in 1..Len(outcomes) :
        outcomes[k].status = "returned" =>
            LET ts == Transformations(outcomes[k])
                p == Platform(outcomes[k])
                count(t) == Cardinality({x \in 1..Len(content.toks) : content.toks[x].t = t}) IN
            IF content.kind = "text"
            THEN /\ Len(ts) = CASE p = "OSB" -> count("Xsl")
                                [] p = "Tibco" -> count("Mapper")
                                [] p = "MuleSoft" -> count("Dw")
                                [] OTHER -> 0
                 /\ \A i \in 1..Len(ts) :
                       /\ ts[i].type \in {"XSLT", "Tibco Mapper", "DataWeave"}
                       /\ ts[i].sourceSchema = "auto-detected"
                       /\ ts[i].targetSchema = "auto-detected"
            ELSE IF p = "Boomi"
                 THEN /\ Len(ts) = Len(content.doc.maps)
                      /\ \A i \in 1..Len(ts) :
                            /\ ts[i].type = "Boomi Map"
                            /\ ts[i].sourceSchema = content.doc.maps[i].sourceProfile
                            /\ ts[i].targetSchema = content.doc.maps[i].targetProfile
                 ELSE /\ Len(ts) = Len(content.doc.transformations)
                      /\ \A i \in 1..Len(ts) :
                            /\ ts[i].sourceSchema = content.doc.transformations[i].inputMimeType
                            /\ ts[i].targetSchema = content.doc.transformations[i].outputMimeType

C19_Witness ==
    /\ filename = <<"a", "json">>
    /\ content = JsonContent(ListDoc("maps", <<BoomiMap("M", Undefined, "Q")>>, FALSE))
    /\ Len(outcomes) > 0
    /\ outcomes[1].status = "returned"
    /\ Transformations(outcomes[1])[1].sourceSchema = Undefined
    /\ Transformations(outcomes[1])[1].targetSchema = "Q"

\* C20: every entry of the methods of every service of every result is an
\* upper-case HTTP verb, whether it was read from an XML attribute or tag or
\* from httpMethods, allowedMethods or operations of a JSON document.
C20_UpperCaseMethods ==
    \A k \in 1..Len(outcomes) :
        outcomes[k].status = "returned" =>
            \A i \in 1..Len(Services(outcomes[k])) :
                LET methods == Services(outcomes[k])[i].methods.items IN
                \A j \in 1..Len(methods) :
                    methods[j] \in {"GET", "POST", "PUT", "DELETE", "PATCH", "HEAD", "OPTIONS"}

(***************************************************************************)
(* Concurrent registry calls.  detectPlatform and parseFile are async      *)
(* methods of the one ParserRegistry instance: several calls, each on its  *)
(* own artifact, are in flight at once and their steps interleave.  A call *)
(* is followed through the states of its artifact: Unclassified while the  *)
(* loop consults the matchers in order, Matched once one has accepted      *)
(* (parseFile then awaits its extractor), NoMatch when the loop is         *)
(* exhausted; Detected, Extracted, ExtractionFailed and Rejected are       *)
(* terminal.                                                               *)
(***************************************************************************)
CallArtifacts ==
    {Artifact(<<"a", "xml">>, TextContent(<<ProxyOpen("A"), T0("ProxyClose")>>)),
     Artifact(<<"b", "xml">>, TextContent(<<T0("MuleRoot")>>)),
     Artifact(<<"c", "txt">>, TextContent(<<T0("MuleRoot"), FlowOpen("A"), T0("FlowClose")>>)),
     Artifact(<<"d", "json">>, JsonContent(NullDoc)),
     Artifact(<<"e", "txt">>, TextContent(<<Text("x")>>))}

Call(op, a) ==
    [op |-> op, filename |-> a.filename, content |-> a.content,
     state |-> "Unclassified", next |-> 1, consulted |-> <<>>,
     matched |-> Undefined, at |-> 0, returned |-> <<>>]

\* a registry that moves the parser that served the last call to the front
registryAfterPromote(ps, p) ==
    <<p>> \o SelectSeq(ps, LAMBDA q : q # p)

\* this.parsers after the parser p has served a call: neither method assigns
\* a field of the registry or of a parser, the arrays parse fills are its own
registryAfter(ps, p) == ps

\* a loop that goes on to the next parser when the extractor has thrown
stateAfterParseRetry(o) ==
    IF o.status = "returned" THEN "Extracted" ELSE "Unclassified"

\* the state of the artifact once the awaited parse has settled
stateAfterParse(o) ==
    IF o.status = "returned" THEN "Extracted" ELSE "ExtractionFailed"

InitConcurrent ==
    /\ parsers = RegistryParsers
    /\ now = 0
    /\ detections = <<>>
    /\ outcomes = <<>>
    /\ filename = <<>>
    /\ content = TextContent(<<>>)
    /\ store = MemStorage
    /\ jobs = <<>>
    /\ \E n \in 1..MaxConcurrent :
          /\ calls \in [1..n -> {Call(op, a) : op \in {"detectPlatform", "parseFile"},
                                                a \in CallArtifacts}]
          /\ \A i, j \in 1..n : i # j => calls[i].filename # calls[j].filename

\* one turn of the loop: parser.canParse(filename, content)
Consult(k) ==
    LET call == calls[k] IN
    /\ call.state = "Unclassified"
    /\ call.next <= Len(parsers)
    /\ LET p == parsers[call.next]
           accepted == canParse(p, call.filename, call.content)
       IN calls' = [calls EXCEPT ![k] =
             LET turn == [call EXCEPT !.next = call.next + 1,
                                      !.consulted = Append(call.consulted, p)]
             IN IF ~accepted THEN turn
                ELSE IF call.op = "detectPlatform"
                THEN [turn EXCEPT !.state = "Detected", !.matched = p, !.returned = <<p>>]
                ELSE [turn EXCEPT !.state = "Matched", !.matched = p]]
    /\ UNCHANGED <<parsers, filename, content, now, detections, outcomes, store, jobs>>

\* the loop has run through this.parsers
Exhaust(k) ==
    LET call == calls[k] IN
    /\ call.state = "Unclassified"
    /\ call.next > Len(parsers)
    /\ calls' = [calls EXCEPT ![k] =
          IF call.op = "detectPlatform"
          THEN [call EXCEPT !.state = "Detected", !.returned = <<"Unknown">>]
          ELSE [call EXCEPT !.state = "NoMatch"]]
    /\ UNCHANGED <<parsers, filename, content, now, detections, outcomes, store, jobs>>

\* return await parser.parse(filename, content)
Extract(k) ==
    LET call == calls[k]
        o == parse(call.matched, call.filename, call.content, now)
    IN
    /\ call.state = "Matched"
    /\ calls' = [calls EXCEPT ![k] =
          [call EXCEPT !.state = stateAfterParse(o), !.at = now, !.returned = <<o>>]]
    /\ parsers' = registryAfter(parsers, call.matched)
    /\ now' = now + 1
    /\ UNCHANGED <<filename, content, detections, outcomes, store, jobs>>

\* throw new Error(`No parser found for file: ${filename}`)
Reject(k) ==
    LET call == calls[k] IN
    /\ call.state = "NoMatch"
    /\ calls' = [calls EXCEPT ![k] =
          [call EXCEPT !.state = "Rejected",
                       !.returned = <<Thrown("No parser found for file: ", call.filename)>>]]
    /\ UNCHANGED <<parsers, filename, content, now, detections, outcomes, store, jobs>>

NextConcurrent ==
    \E k \in DOMAIN calls : Consult(k) \/ Exhaust(k) \/ Extract(k) \/ Reject(k)

SpecConcurrent == InitConcurrent /\ [][NextConcurrent]_vars

\* one parseFile call, on any artifact of a family that has every file
\* extension of the registry with contents each parser accepts or fails on
ParseCallArtifacts ==
    {Artifact(f, c) :
        f \in RegistryFilenames,
        c \in {TextContent(<<ProxyOpen("A"), T0("ProxyClose")>>),
                TextContent(<<T0("MuleRoot"), FlowOpen("A"), T0("FlowClose")>>),
                TextContent(<<Text("x")>>),
                JsonContent(NullDoc),
                JsonContent(MuleDoc(<<>>))}}

InitParseCall ==
    /\ parsers = RegistryParsers
    /\ now = 0
    /\ detections = <<>>
    /\ outcomes = <<>>
    /\ filename = <<>>
    /\ content = TextContent(<<>>)
    /\ store = MemStorage
    /\ jobs = <<>>
    /\ \E a \in ParseCallArtifacts : calls = <<Call("parseFile", a)>>

\* the event loop resumes a call that can take a step
SpecParseCall == InitParseCall /\ [][NextConcurrent]_vars /\ WF_vars(NextConcurrent)

\* C21: under every interleaving of concurrent detectPlatform and parseFile
\* calls on different artifacts, a call that has ended has returned (or
\* thrown) what the registry returns for its artifact when the call runs
\* alone, at the clock value it read, and the registry's ordered list of
\* parsers is the list it was constructed with.
C21_NoSharedState ==
    /\ parsers = RegistryParsers
    /\ \A k \in DOMAIN calls :
          LET call == calls[k] IN
          /\ call.state = "Detected" =>
                call.returned =
                    <<detectPlatform(RegistryParsers, call.filename, call.content)>>
          /\ call.state \in {"Extracted", "ExtractionFailed", "Rejected"} =>
                call.returned =
                    <<parseFile(RegistryParsers, call.filename, call.content, call.at)>>

\* two parseFile calls on different artifacts have both ended, one with a
\* result and after the other one, which has failed in its extractor
C21_Witness ==
    \E i, j \in DOMAIN calls :
        /\ i # j
        /\ calls[i].state = "Extracted"
        /\ calls[i].at > 0
        /\ calls[j].state = "ExtractionFailed"

CallTransitions ==
    {<<"Unclassified", "Unclassified">>, <<"Unclassified", "Matched">>,
     <<"Unclassified", "NoMatch">>, <<"Matched", "Extracted">>,
     <<"Matched", "ExtractionFailed">>, <<"NoMatch", "Rejected">>}

\* the parsers of the list up to and including p
UpTo(ps, p) == SubSeq(ps, 1, CHOOSE i \in 1..Len(ps) : ps[i] = p)

\* C22: a parseFile call moves Unclassified -> Matched(P) -> Extracted or
\* ExtractionFailed, or Unclassified -> NoMatch -> Rejected, and by no other
\* step; once a matcher has accepted, the matchers consulted are those up to
\* the accepting one and stay so, whether the extractor returns an empty
\* result or fails; the terminal state carries exactly one outcome of its
\* kind; and every call ends in one of the three terminal states.
C22_CallStateMachine ==
    /\ [][\A k \in DOMAIN calls :
            calls[k].op = "parseFile" =>
               \/ calls'[k] = calls[k]
               \/ /\ <<calls[k].state, calls'[k].state>> \in CallTransitions
                  /\ calls[k].state # "Unclassified" =>
                        /\ calls'[k].consulted = calls[k].consulted
                        /\ calls'[k].matched = calls[k].matched]_vars
    /\ [](\A k \in DOMAIN calls :
            LET call == calls[k] IN
            calls[k].op = "parseFile" =>
               /\ call.state \in {"Matched", "Extracted", "ExtractionFailed"} =>
                     call.consulted = UpTo(RegistryParsers, call.matched)
               /\ call.state \in {"NoMatch", "Rejected"} =>
                     call.consulted = RegistryParsers /\ call.matched = Undefined
               /\ call.state = "Extracted" =>
                     Len(call.returned) = 1 /\ call.returned[1].status = "returned"
               /\ call.state = "ExtractionFailed" =>
                     /\ Len(call.returned) = 1
                     /\ call.returned[1] \in {Failed(call.matched, m) :
                                                 m \in {NullRead("processes"), NullRead("flows")}}
               /\ call.state = "Rejected" =>
                     call.returned = <<Thrown("No parser found for file: ", call.filename)>>
               /\ call.state \in {"Unclassified", "Matched", "NoMatch"} =>
                     call.returned = <<>>)
    /\ <>(\A k \in DOMAIN calls :
            calls[k].op = "parseFile" =>
               calls[k].state \in {"Extracted", "ExtractionFailed", "Rejected"})

\* a call whose artifact Boomi has accepted and failed to extract: Tibco and
\* MuleSoft have not been consulted
C22_Witness ==
    \E k \in DOMAIN calls :
        /\ calls[k].op = "parseFile"
        /\ calls[k].state = "ExtractionFailed"
        /\ calls[k].consulted = <<"OSB", "Boomi">>

(***************************************************************************)
(* The upload gate of the HTTP layer.                                      *)
(***************************************************************************)
\* the extensions of allowedTypes, without their dot
allowedTypes == {"jar", "ear", "zip", "xml", "json"}

\* '.' + file.originalname.split('.').pop()?.toLowerCase() is in allowedTypes
fileFilter(f) == ToLowerCase(f[Len(f)]) \in allowedTypes

\* the platform the claim gives a gated file
GatedPlatform(f, c) ==
    LET ext == ToLowerCase(f[Len(f)]) IN
    CASE ext \in {"jar", "ear"} -> "OSB"
      [] ext \in {"zip", "json"} -> "Boomi"
      [] ext = "xml" ->
            IF /\ isXmlContent(c)
               /\ \/ Includes(c, "xmlns:osb")
                  \/ Includes(c, "proxy-service")
                  \/ Includes(c, "business-service")
            THEN "OSB" ELSE "Tibco"

\* the outcome o is the one of the extractor of platform p
ReachedExtractor(o, p) ==
    o = parse(p, filename, content,
              IF o.status = "returned" THEN o.result[1].metadata.parsedAt ELSE 0)

C27_MetadataConsistency ==
    \A k \in 1..Len(outcomes) :
        outcomes[k].status = "returned" =>
            LET r == outcomes[k].result[1] IN
            /\ r.metadata.platform = detectPlatform(parsers, filename, content)
            /\ \A i \in 1..Len(r.services) :
                  r.services[i].platform = r.metadata.platform
            /\ r.metadata.filename = filename
            /\ r.metadata.serviceCount = Len(r.services)
            /\ r.metadata.proxyServiceCount = Len(r.proxyServices)
            /\ r.metadata.transformationCount = Len(r.transformations)

\* a result with a service, a proxy record and a transformation
C27_Witness ==
    /\ Len(outcomes) > 0
    /\ outcomes[1].status = "returned"
    /\ LET r == outcomes[1].result[1] IN
       /\ r.metadata.serviceCount = 1
       /\ r.metadata.proxyServiceCount = 1
       /\ r.metadata.transformationCount = 1
       /\ r.services[1].platform = "OSB"

(***************************************************************************)
(* Artifacts made of several complete named blocks: proxy-service blocks   *)
(* in an OSB file, ProcessDefinition blocks in a Tibco file, flow blocks   *)
(* in a MuleSoft file.  The names A and a differ only in letter case.      *)
(***************************************************************************)
BlockNames == {"A", "a", "B"}

OSBBlocks ==
    {<<ProxyOpen(n)>> \o body \o <<T0("ProxyClose")>> :
        n \in BlockNames,
        body \in {<<>>, <<T0("Rest")>>, <<Elem("endpoint-uri", "/api/orders")>>}}

TibcoBlocks ==
    {<<PdOpen(n)>> \o body \o <<T0("PdClose")>> :
        n \in BlockNames,
        body \in {<<>>, <<Config("/orders?wsdl")>>, <<Method("get")>>}}

MuleBlocks ==
    {<<FlowOpen(n)>> \o body \o <<T0("FlowClose")>> :
        n \in BlockNames,
        body \in {<<>>, <<Listener(Undefined, "/orders?wsdl", "get, put")>>,
                   <<Listener("cfg", "/soap/orders", Undefined)>>}}

RECURSIVE Concat(_)
Concat(seqs) == IF seqs = <<>> THEN <<>> ELSE Head(seqs) \o Concat(Tail(seqs))

BlockArtifacts ==
    {Artifact(<<"a", "xml">>, TextContent(Concat(bs))) :
        bs \in SeqsUpTo(OSBBlocks, MaxBlocks) \ {<<>>}}
    \cup {Artifact(<<"a", "process">>, TextContent(Concat(bs))) :
        bs \in SeqsUpTo(TibcoBlocks, MaxBlocks) \ {<<>>}}
    \cup {Artifact(<<"a", "txt">>, TextContent(<<T0("MuleRoot")>> \o Concat(bs))) :
        bs \in SeqsUpTo(MuleBlocks, MaxBlocks) \ {<<>>}}

InitBlocks ==
    /\ InitCalls
    /\ \E a \in BlockArtifacts :
          /\ filename = a.filename
          /\ content = a.content

SpecBlocks == InitBlocks /\ [][Next]_vars

\* the k-th block itself: from the k-th named opening tag to the first end
\* tag after it
BlockAt(toks, open, close, k) ==
    LET starts == {i \in 1..Len(toks) : toks[i].t = open /\ toks[i].n # Undefined}
        s == CHOOSE i \in starts : Cardinality({j \in starts : j <= i}) = k
        e == CHOOSE i \in (s + 1)..Len(toks) :
                 toks[i].t = close /\ \A j \in (s + 1)..(i - 1) : toks[j].t # close
    IN SubSeq(toks, s, e)

\* C30 (as stated): an XML extractor emits one service per named opening tag,
\* in document order, and the k-th service has the endpoint, methods,
\* description and schemas extracted from the k-th block itself, also when two
\* blocks have the same name or names that differ only in letter case.
C30_PerBlockAttribution ==
    \A i \in 1..Len(outcomes) :
        LET o == outcomes[i]
            p == detectPlatform(parsers, filename, content)
            open == CASE p = "OSB" -> "ProxyOpen" [] p = "Tibco" -> "PdOpen"
                      [] OTHER -> "FlowOpen"
            close == CASE p = "OSB" -> "ProxyClose" [] p = "Tibco" -> "PdClose"
                       [] OTHER -> "FlowClose"
            tags == NamedTags(content.toks, open)
        IN o.status = "returned" =>
              /\ Len(Services(o)) = Len(tags)
              /\ \A k \in 1..Len(tags) :
                    LET block == BlockAt(content.toks, open, close, k)
                        own == CASE p = "OSB" -> OSBService(block, tags[k])
                                 [] p = "Tibco" -> TibcoService(block, tags[k])
                                 [] OTHER -> MuleSoftService(block, tags[k])
                    IN Services(o)[k] = own

\* the part of C30 that holds: one service per named opening tag, named
\* after it, in document order
BlocksCounted ==
    \A i \in 1..Len(outcomes) :
        LET o == outcomes[i]
            p == detectPlatform(parsers, filename, content)
            open == CASE p = "OSB" -> "ProxyOpen" [] p = "Tibco" -> "PdOpen"
                      [] OTHER -> "FlowOpen"
            tags == NamedTags(content.toks, open)
        IN /\ o.status = "returned"
           /\ Len(Services(o)) = Len(tags)
           /\ \A k \in 1..Len(tags) : Services(o)[k].name = tags[k].n

\* the part of C30 that holds as well: blocks whose names differ, letter case
\* aside, are attributed each to itself
BlocksDistinctNames ==
    \A i \in 1..Len(outcomes) :
        LET o == outcomes[i]
            p == detectPlatform(parsers, filename, content)
            open == CASE p = "OSB" -> "ProxyOpen" [] p = "Tibco" -> "PdOpen"
                      [] OTHER -> "FlowOpen"
            close == CASE p = "OSB" -> "ProxyClose" [] p = "Tibco" -> "PdClose"
                       [] OTHER -> "FlowClose"
            tags == NamedTags(content.toks, open)
        IN (\A j, k \in 1..Len(tags) :
                j # k => ~EqualsIgnoreCase(tags[j].n, tags[k].n)) =>
              \A k \in 1..Len(tags) :
                  LET block == BlockAt(content.toks, open, close, k) IN
                  Services(o)[k] = CASE p = "OSB" -> OSBService(block, tags[k])
                                     [] p = "Tibco" -> TibcoService(block, tags[k])
                                     [] OTHER -> MuleSoftService(block, tags[k])

(***************************************************************************)
(* MemStorage.  A Map<number, T> is a function from its keys to its        *)
(* records; every operation is given the store and returns the store       *)
(* after it together with the value it resolves to.  Of a record the       *)
(* fields the orchestrator and the generator read or write are kept.       *)
(***************************************************************************)
Null == "<null>"

Effect(st, value) == [store |-> st, value |-> value]

\* map.set(id, record)
MapSet(map, id, record) ==
    [k \in DOMAIN map \cup {id} |-> IF k = id THEN record ELSE map[k]]

\* map.delete(id)
MapDelete(map, id) == [k \in DOMAIN map \ {id} |-> map[k]]

\* { ...record, ...updates }
Spread(record, updates) ==
    [k \in DOMAIN record \cup DOMAIN updates |->
        IF k \in DOMAIN updates THEN updates[k] ELSE record[k]]

\* Array.from(map.values()).filter(keep), as the set of its elements
Values(map, keep(_)) == {map[k] : k \in {i \in DOMAIN map : keep(map[i])}}

createUploadedFile(st, file) ==
    LET id == st.currentFileId
        uploadedFile == [id |-> id,
                         originalName |-> file.originalName,
                         platform |-> Or(file.platform, Null),
                         status |-> Or(file.status, "uploaded"),
                         errorMessage |-> Or(file.errorMessage, Null)]
    IN Effect([st EXCEPT !.currentFileId = id + 1,
                         !.uploadedFiles = MapSet(@, id, uploadedFile)],
              uploadedFile)

updateUploadedFile(st, id, updates) ==
    IF id \in DOMAIN st.uploadedFiles
    THEN LET updatedFile == Spread(st.uploadedFiles[id], updates) IN
         Effect([st EXCEPT !.uploadedFiles = MapSet(@, id, updatedFile)], updatedFile)
    ELSE Effect(st, Undefined)

deleteUploadedFile(st, id) ==
    Effect([st EXCEPT !.uploadedFiles = MapDelete(@, id)], id \in DOMAIN st.uploadedFiles)

\* a store that numbers a new service by the size of the map
createServiceBySize(st, service) ==
    LET id == Cardinality(DOMAIN st.services) + 1
        newService == Spread(service, [id |-> id]) IN
    Effect([st EXCEPT !.currentServiceId = @ + 1,
                      !.services = MapSet(@, id, newService)],
           newService)

createService(st, service) ==
    LET id == st.currentServiceId
        newService == Spread(service, [id |-> id]) IN
    Effect([st EXCEPT !.currentServiceId = id + 1,
                      !.services = MapSet(@, id, newService)],
           newService)

getServicesByFileId(st, fileId) ==
    Values(st.services, LAMBDA service : service.fileId = fileId)

updateService(st, id, updates) ==
    IF id \in DOMAIN st.services
    THEN LET updatedService == Spread(st.services[id], updates) IN
         Effect([st EXCEPT !.services = MapSet(@, id, updatedService)], updatedService)
    ELSE Effect(st, Undefined)

deleteService(st, id) ==
    Effect([st EXCEPT !.services = MapDelete(@, id)], id \in DOMAIN st.services)

createProxyService(st, proxyService) ==
    LET id == st.currentProxyServiceId
        newProxyService == Spread(proxyService, [id |-> id]) IN
    Effect([st EXCEPT !.currentProxyServiceId = id + 1,
                      !.proxyServices = MapSet(@, id, newProxyService)],
           newProxyService)

getProxyServicesByFileId(st, fileId) ==
    Values(st.proxyServices, LAMBDA proxy : proxy.fileId = fileId)

createTransformation(st, transformation) ==
    LET id == st.currentTransformationId
        newTransformation == Spread(transformation, [id |-> id]) IN
    Effect([st EXCEPT !.currentTransformationId = id + 1,
                      !.transformations = MapSet(@, id, newTransformation)],
           newTransformation)

getTransformationsByFileId(st, fileId) ==
    Values(st.transformations, LAMBDA transform : transform.fileId = fileId)

\* a value of type any: undefined, null or an object with its fields
UndefinedValue == [type |-> "undefined"]

NullValue == [type |-> "null"]

Object(fields) == Spread([type |-> "object"], fields)

\* value || null
OrNull(value) == IF value.type \in {"undefined", "null"} THEN NullValue ELSE value

\* { ...value, ...fields }: spreading undefined or null adds nothing
SpreadValue(value, fields) ==
    IF value.type = "object" THEN Spread(value, fields) ELSE Object(fields)

createGeneratedDocument(st, document) ==
    LET id == st.currentDocumentId
        newDocument == [id |-> id,
                        templateId |-> document.templateId,
                        status |-> Or(document.status, "pending"),
                        configuration |-> OrNull(document.configuration)]
    IN Effect([st EXCEPT !.currentDocumentId = id + 1,
                         !.generatedDocuments = MapSet(@, id, newDocument)],
              newDocument)

updateGeneratedDocument(st, id, updates) ==
    IF id \in DOMAIN st.generatedDocuments
    THEN LET updatedDocument == Spread(st.generatedDocuments[id], updates) IN
         Effect([st EXCEPT !.generatedDocuments = MapSet(@, id, updatedDocument)],
                updatedDocument)
    ELSE Effect(st, Undefined)

(***************************************************************************)
(* FileProcessor.processFile, in its two versions: the one that runs the   *)
(* OpenAI analysis first and the parsers as a second, structural pass      *)
(* (variant "llm"), and the one that runs the parsers only (variant        *)
(* "plain").  A call is a job; it takes one step per awaited call, and the *)
(* steps of the jobs interleave.                                           *)
(***************************************************************************)
\* a thrown value: an Error with its message, or a value that is no Error
Error(message) == [isError |-> TRUE, message |-> message]

NonError == [isError |-> FALSE, message |-> Undefined]

\* the file name as text: its parts joined by dots
RECURSIVE FileNameText(_)
FileNameText(f) ==
    IF Len(f) = 0 THEN ""
    ELSE IF Len(f) = 1 THEN f[1]
    ELSE f[1] \o "." \o FileNameText(Tail(f))

\* the Error a rejected parseFile call throws
ParserError(o) == Error(o.error \o FileNameText(o.errorFile))

\* a handler that stores no message for a thrown value that is no Error
errorMessageNoFallback(e) == IF e.isError THEN e.message ELSE Null

\* error instanceof Error ? error.message : "Unknown error occurred"
errorMessage(e) == IF e.isError THEN e.message ELSE "Unknown error occurred"

\* an orchestrator without a try/catch around the structural pass
catchesParserErrorNever(variant) == FALSE

\* is the structural pass wrapped in a try/catch of its own
catchesParserError(variant) == variant = "llm"

\* a check that never finds the service among the stored ones
existsNever(existingServices, service) == FALSE

\* existingServices.some(existing => existing.name === service.name &&
\*                                   existing.type === service.type)
exists(existingServices, service) ==
    \E existing \in existingServices :
        existing.name = service.name /\ existing.type = service.type

\* what openaiService.analyzeESBArtifact resolves to or rejects with
Analysis(platform, services, integrationPoints) ==
    [status |-> "returned", platform |-> platform, services |-> services,
     integrationPoints |-> integrationPoints, thrown |-> NonError]

AnalysisError(e) ==
    [status |-> "thrown", platform |-> Undefined, services |-> <<>>,
     integrationPoints |-> <<>>, thrown |-> e]

NoAnalysis == Analysis(Undefined, <<>>, <<>>)

Job(fileId, variant, a, analysis) ==
    [kind |-> "processFile", fileId |-> fileId, variant |-> variant,
     filename |-> a.filename, content |-> a.content, analysis |-> analysis,
     pc |-> "start", i |-> 1, parseResult |-> <<>>, existing |-> {},
     result |-> "pending", thrown |-> NonError]

\* the phases of processFile in program order, each a loop of awaited calls
Phases ==
    <<"start", "analyze", "llmServices", "llmTransformations", "platform",
      "structural", "read", "insert", "proxies", "transformations", "setParsed",
      "done">>

PhaseIndex(pc) == CHOOSE n \in 1..Len(Phases) : Phases[n] = pc

ParsedList(job, field) ==
    IF Len(job.parseResult) = 1 /\ job.parseResult[1].status = "returned"
    THEN job.parseResult[1].result[1][field] ELSE <<>>

\* the number of awaited calls of a phase
Turns(job, pc) ==
    CASE pc \in {"analyze", "llmServices", "llmTransformations"} ->
            IF job.variant # "llm" THEN 0
            ELSE IF pc = "analyze" THEN 1
            ELSE IF pc = "llmServices" THEN Len(job.analysis.services)
            ELSE Len(job.analysis.integrationPoints)
      [] pc = "platform" -> IF job.variant = "plain" THEN 1 ELSE 0
      [] pc = "read" -> IF job.variant = "llm" THEN Len(ParsedList(job, "services")) ELSE 0
      [] pc = "insert" -> Len(ParsedList(job, "services"))
      [] pc = "proxies" -> Len(ParsedList(job, "proxyServices"))
      [] pc = "transformations" -> Len(ParsedList(job, "transformations"))
      [] OTHER -> 1

\* the first phase from position n on that has an awaited call
RECURSIVE PhaseFrom(_, _)
PhaseFrom(job, n) ==
    IF n >= Len(Phases) THEN "done"
    ELSE IF Turns(job, Phases[n]) > 0 THEN Phases[n]
    ELSE PhaseFrom(job, n + 1)

\* the job after the awaited call of its phase has resolved
Resumed(job) ==
    IF job.pc = "read" THEN [job EXCEPT !.pc = "insert"]
    ELSE IF job.pc = "insert" /\ job.variant = "llm" /\ job.i < Turns(job, "insert")
    THEN [job EXCEPT !.pc = "read", !.i = job.i + 1]
    ELSE IF job.i < Turns(job, job.pc) THEN [job EXCEPT !.i = job.i + 1]
    ELSE LET pc == PhaseFrom(job, PhaseIndex(job.pc) + 1) IN
         [job EXCEPT !.pc = pc, !.i = 1,
                     !.result = IF pc = "done" THEN "returned" ELSE job.result]

\* the outer catch block: the status is set to error and the error rethrown
Caught(st, job, e) ==
    [store |-> updateUploadedFile(st, job.fileId,
                   [status |-> "error", errorMessage |-> errorMessage(e)]).store,
     job |-> [job EXCEPT !.pc = "done", !.result = "thrown", !.thrown = e]]

\* an insert record of services, with the origin its configuration names
InsertService(fileId, service, source) ==
    [fileId |-> fileId, name |-> service.name, type |-> service.type, source |-> source]

InsertProxyService(fileId, proxyService) ==
    [fileId |-> fileId, name |-> proxyService.name]

InsertTransformation(fileId, transformation) ==
    [fileId |-> fileId, name |-> transformation.name, type |-> transformation.type]

\* POST /api/files/upload for one file: the file record is created and
\* processFile is called on it
Upload(limit, variants, artifacts, analyses) ==
    /\ Len(jobs) < limit
    /\ \E variant \in variants, a \in artifacts, analysis \in analyses :
          LET created == createUploadedFile(store,
                             [originalName |-> a.filename, platform |-> Undefined,
                              status |-> "uploaded", errorMessage |-> Undefined]) IN
          /\ \A j \in DOMAIN jobs : jobs[j].variant = variant
          /\ store' = created.store
          /\ jobs' = Append(jobs, Job(created.value.id, variant, a,
                                      IF variant = "llm" THEN analysis ELSE NoAnalysis))
    /\ UNCHANGED <<parsers, filename, content, now, detections, outcomes, calls>>

\* await storage.updateUploadedFile(fileId, { status: "processing" })
Start(j) ==
    /\ jobs[j].pc = "start"
    /\ store' = updateUploadedFile(store, jobs[j].fileId, [status |-> "processing"]).store
    /\ jobs' = [jobs EXCEPT ![j] = Resumed(jobs[j])]
    /\ UNCHANGED <<parsers, filename, content, now, detections, outcomes, calls>>

\* the OpenAI analysis settles; its platform is stored
Analyze(j) ==
    LET job == jobs[j] IN
    /\ job.pc = "analyze"
    /\ IF job.analysis.status = "returned"
       THEN /\ store' = updateUploadedFile(store, job.fileId,
                            [platform |-> job.analysis.platform]).store
            /\ jobs' = [jobs EXCEPT ![j] = Resumed(job)]
       ELSE LET caught == Caught(store, job, job.analysis.thrown) IN
            /\ store' = caught.store
            /\ jobs' = [jobs EXCEPT ![j] = caught.job]
    /\ UNCHANGED <<parsers, filename, content, now, detections, outcomes, calls>>

\* the loops over analysisResult.services and analysisResult.integrationPoints
StoreAnalysis(j) ==
    LET job == jobs[j] IN
    /\ job.pc \in {"llmServices", "llmTransformations"}
    /\ store' =
          IF job.pc = "llmServices"
          THEN createService(store,
                   InsertService(job.fileId, job.analysis.services[job.i], "openai")).store
          ELSE createTransformation(store,
                   InsertTransformation(job.fileId,
                                        job.analysis.integrationPoints[job.i])).store
    /\ jobs' = [jobs EXCEPT ![j] = Resumed(job)]
    /\ UNCHANGED <<parsers, filename, content, now, detections, outcomes, calls>>

\* plain version: detectPlatform, then the platform is stored
StorePlatform(j) ==
    LET job == jobs[j] IN
    /\ job.pc = "platform"
    /\ store' = updateUploadedFile(store, job.fileId,
                     [platform |-> detectPlatform(parsers, job.filename, job.content)]).store
    /\ jobs' = [jobs EXCEPT ![j] = Resumed(job)]
    /\ UNCHANGED <<parsers, filename, content, now, detections, outcomes, calls>>

\* await parserRegistry.parseFile(filename, content): its result is kept, or
\* its error lands in the nearest catch block
Structural(j) ==
    LET job == jobs[j] IN
    /\ job.pc = "structural"
    /\ \E o \in {parseFile(parsers, job.filename, job.content, now)} :
          LET parsed == [job EXCEPT !.parseResult = <<o>>] IN
          IF o.status = "returned"
          THEN /\ jobs' = [jobs EXCEPT ![j] = Resumed(parsed)]
               /\ store' = store
          ELSE IF catchesParserError(job.variant)
          THEN /\ jobs' = [jobs EXCEPT ![j] = [parsed EXCEPT !.pc = "setParsed", !.i = 1]]
               /\ store' = store
          ELSE LET caught == Caught(store, parsed, ParserError(o)) IN
               /\ store' = caught.store
               /\ jobs' = [jobs EXCEPT ![j] = caught.job]
    /\ UNCHANGED <<parsers, filename, content, now, detections, outcomes, calls>>

\* const existingServices = await storage.getServicesByFileId(fileId)
ReadExisting(j) ==
    LET job == jobs[j] IN
    /\ job.pc = "read"
    /\ jobs' = [jobs EXCEPT ![j] =
                   Resumed([job EXCEPT !.existing = getServicesByFileId(store, job.fileId)])]
    /\ UNCHANGED <<parsers, filename, content, now, detections, outcomes, calls, store>>

\* a parsed service is stored; the llm version skips one that exists
StoreService(j) ==
    LET job == jobs[j]
        service == ParsedList(job, "services")[job.i]
    IN
    /\ job.pc = "insert"
    /\ store' =
          IF job.variant = "llm"
          THEN IF exists(job.existing, service) THEN store
               ELSE createService(store,
                        InsertService(job.fileId, service, "traditional_parser")).store
          ELSE createService(store, InsertService(job.fileId, service, Undefined)).store
    /\ jobs' = [jobs EXCEPT ![j] = Resumed(job)]
    /\ UNCHANGED <<parsers, filename, content, now, detections, outcomes, calls>>

\* the loops over parseResult.proxyServices and parseResult.transformations
StoreRecords(j) ==
    LET job == jobs[j] IN
    /\ job.pc \in {"proxies", "transformations"}
    /\ store' =
          IF job.pc = "proxies"
          THEN createProxyService(store,
                   InsertProxyService(job.fileId,
                                      ParsedList(job, "proxyServices")[job.i])).store
          ELSE createTransformation(store,
                   InsertTransformation(job.fileId,
                                        ParsedList(job, "transformations")[job.i])).store
    /\ jobs' = [jobs EXCEPT ![j] = Resumed(job)]
    /\ UNCHANGED <<parsers, filename, content, now, detections, outcomes, calls>>

\* await storage.updateUploadedFile(fileId, { status: "parsed" })
SetParsed(j) ==
    /\ jobs[j].pc = "setParsed"
    /\ store' = updateUploadedFile(store, jobs[j].fileId, [status |-> "parsed"]).store
    /\ jobs' = [jobs EXCEPT ![j] = Resumed(jobs[j])]
    /\ UNCHANGED <<parsers, filename, content, now, detections, outcomes, calls>>

ProcessFile(j) ==
    \/ Start(j) \/ Analyze(j) \/ StoreAnalysis(j) \/ StorePlatform(j) \/ Structural(j)
    \/ ReadExisting(j) \/ StoreService(j) \/ StoreRecords(j) \/ SetParsed(j)

\* artifacts for the orchestrator: a Tibco file with three process blocks, two
\* of them with the same name; one with a receiver and a mapper; a file no
\* parser accepts; a JSON file on which the Boomi extractor fails
Processes == Artifact(<<"x", "process">>,
                      TextContent(<<PdOpen("A"), T0("PdClose"), PdOpen("B"), T0("PdClose"),
                                    PdOpen("B"), T0("PdClose")>>))

Plumbing == Artifact(<<"m", "process">>, TextContent(<<T0("Receiver"), T0("Mapper")>>))

Unrecognized == Artifact(<<"e", "txt">>, TextContent(<<Text("x")>>))

Malformed == Artifact(<<"d", "json">>, JsonContent(NullDoc))

AnalysisOfA == Analysis("Tibco", <<[name |-> "A", type |-> "REST"]>>, <<>>)

IngestArtifacts == {Processes, Plumbing, Unrecognized}

Analyses == {AnalysisError(Error("OpenAI request failed")), AnalysisOfA}

InitIngest ==
    /\ InitCalls
    /\ filename = <<>>
    /\ content = TextContent(<<>>)

NextIngest ==
    \/ Upload(MaxFiles, {"llm", "plain"}, IngestArtifacts, Analyses)
    \/ \E j \in DOMAIN jobs : ProcessFile(j)

SpecIngest == InitIngest /\ [][NextIngest]_vars

StoreTypeOK ==
    /\ \A id \in DOMAIN store.uploadedFiles :
          store.uploadedFiles[id].status \in {"uploaded", "processing", "parsed", "error"}
    /\ \A j \in DOMAIN jobs : jobs[j].pc \in {Phases[n] : n \in 1..Len(Phases)}

SamePair(s, t) == s.name = t.name /\ s.type = t.type

\* C23: of the services the structural pass of the llm version finds for a
\* file, each (name, type) is stored for that file once processFile has
\* returned; the structural pass has added at most one record per (name,
\* type), only pairs it has found, and none for a pair the LLM pass has
\* stored; under any interleaving with the processFile calls of other files.
C23_DuplicateReconciliation ==
    \A j \in DOMAIN jobs :
        LET job == jobs[j]
            stored == getServicesByFileId(store, job.fileId)
            added == {s \in stored : s.source = "traditional_parser"}
            analysed == {s \in stored : s.source = "openai"}
            found == ParsedList(job, "services")
        IN job.variant = "llm" =>
              /\ \A s, t \in added : SamePair(s, t) => s = t
              /\ \A s \in added : \A t \in analysed : ~SamePair(s, t)
              /\ \A s \in added : \E k \in 1..Len(found) : SamePair(s, found[k])
              /\ job.pc = "done" /\ job.result = "returned" =>
                    \A k \in 1..Len(found) : \E s \in stored : SamePair(s, found[k])

\* two files have been processed; for one the LLM pass stored (A, REST) and
\* the structural pass, which found (A, REST), (B, REST), (B, REST), added
\* (B, REST) once
C23_Witness ==
    /\ Len(jobs) = 2
    /\ \A j \in DOMAIN jobs : jobs[j].pc = "done"
    /\ \E j \in DOMAIN jobs :
          LET stored == getServicesByFileId(store, jobs[j].fileId) IN
          /\ jobs[j].variant = "llm"
          /\ Len(ParsedList(jobs[j], "services")) = 3
          /\ {<<s.name, s.type, s.source>> : s \in stored} =
                {<<"A", "REST", "openai">>, <<"B", "REST", "traditional_parser">>}
          /\ Cardinality(stored) = 2

\* no platform matcher accepts the artifact of the job
NoMatcherAccepts(job) ==
    \A n \in 1..Len(parsers) : ~canParse(parsers[n], job.filename, job.content)

NoParserFound(job) == Error("No parser found for file: " \o FileNameText(job.filename))

LifecycleAnalyses ==
    {AnalysisError(Error("OpenAI request failed")),
     AnalysisError(NonError),
     AnalysisOfA,
     Analysis("Tibco", <<>>, <<[name |-> "Orders DB", type |-> "database"]>>)}

\* a TIBCO export that passes the upload gate
Orders == Artifact(<<"orders", "xml">>, TextContent(<<PdOpen("A"), T0("PdClose")>>))

LifecycleArtifacts == {Orders, Processes, Plumbing, Unrecognized, Malformed}

\* DELETE /api/files/:id, at any moment of the life of the file
DeleteFile(id) ==
    /\ store' = deleteUploadedFile(store, id).store
    /\ UNCHANGED <<parsers, filename, content, now, detections, outcomes, calls, jobs>>

NextLifecycle ==
    \/ Upload(1, {"llm", "plain"}, LifecycleArtifacts, LifecycleAnalyses)
    \/ \E j \in DOMAIN jobs : ProcessFile(j)
    \/ \E id \in DOMAIN store.uploadedFiles : DeleteFile(id)

\* the event loop resumes a processFile call whose awaited call has settled
SpecLifecycle ==
    /\ InitIngest
    /\ [][NextLifecycle]_vars
    /\ WF_vars(\E j \in DOMAIN jobs : ProcessFile(j))

StatusSteps ==
    {<<"uploaded", "processing">>, <<"processing", "parsed">>, <<"processing", "error">>}

\* everything the call of the job has to store is stored
AllStored(job) ==
    LET stored == getServicesByFileId(store, job.fileId)
        found == ParsedList(job, "services")
    IN
    /\ Cardinality({s \in stored : s.source = "openai"}) = Len(job.analysis.services)
    /\ \A k \in 1..Len(found) : \E s \in stored : SamePair(s, found[k])
    /\ job.variant = "plain" => Cardinality(stored) = Len(found)
    /\ Cardinality(getProxyServicesByFileId(store, job.fileId)) =
          Len(ParsedList(job, "proxyServices"))
    /\ Cardinality(getTransformationsByFileId(store, job.fileId)) =
          Len(job.analysis.integrationPoints) + Len(ParsedList(job, "transformations"))

\* the stored status values of a file: uploaded first, then along StatusSteps
StatusSequence ==
    [][\A id \in DOMAIN store'.uploadedFiles :
          IF id \in DOMAIN store.uploadedFiles
          THEN \/ store'.uploadedFiles[id].status = store.uploadedFiles[id].status
               \/ <<store.uploadedFiles[id].status, store'.uploadedFiles[id].status>>
                     \in StatusSteps
          ELSE store'.uploadedFiles[id].status = "uploaded"]_vars

\* what the stored status of the file of a call says about the call
StatusMeaning ==
    \A j \in DOMAIN jobs :
        LET job == jobs[j] IN
        job.fileId \in DOMAIN store.uploadedFiles =>
            LET file == store.uploadedFiles[job.fileId] IN
            /\ file.status = "error" =>
                  /\ job.result = "thrown"
                  /\ file.errorMessage \notin {Null, Undefined, ""}
                  /\ file.errorMessage = errorMessage(job.thrown)
            /\ file.status = "parsed" =>
                  job.pc = "done" /\ job.result = "returned" /\ AllStored(job)

\* the file of the call is stored with the status that tells how the call ended
EndsWithStatus(job, st) ==
    /\ job.fileId \in DOMAIN st.uploadedFiles
    /\ st.uploadedFiles[job.fileId].status =
          (IF job.result = "thrown" THEN "error" ELSE "parsed")

EveryCallEnds ==
    (jobs # <<>>) ~> (\A j \in DOMAIN jobs : jobs[j].pc = "done")

\* C25: a file record is created with status uploaded and its status only
\* moves uploaded -> processing -> parsed or error, so it never leaves parsed
\* or error; status error comes with an errorMessage and with the error
\* thrown to the caller of processFile; status parsed is set only when
\* processFile has stored every service, proxy service and transformation of
\* the call; and every processFile call ends, leaving its file in status
\* parsed (when it returns) or error (when it throws).
C25_StatusLifecycle ==
    /\ StatusSequence
    /\ []StatusMeaning
    /\ [][\A j \in DOMAIN jobs :
            jobs[j].pc # "done" /\ jobs'[j].pc = "done" => EndsWithStatus(jobs'[j], store')]_vars
    /\ EveryCallEnds

\* what holds of the code: the lifecycle of a file as long as its record is
\* stored; a call whose file has been deleted ends without any stored status
StatusLifecycleWhileStored ==
    /\ StatusSequence
    /\ []StatusMeaning
    /\ [][\A j \in DOMAIN jobs :
            /\ jobs[j].pc # "done" /\ jobs'[j].pc = "done"
            /\ jobs[j].fileId \in DOMAIN store'.uploadedFiles
            => EndsWithStatus(jobs'[j], store')]_vars
    /\ EveryCallEnds

\* a call has ended, and returned, for a file deleted while it ran: no file
\* record holds a status for it, and the records it stored have no file
DeletedWhileProcessing ==
    \E j \in DOMAIN jobs :
        /\ jobs[j].pc = "done"
        /\ jobs[j].result = "returned"
        /\ jobs[j].filename = <<"orders", "xml">>
        /\ jobs[j].fileId \notin DOMAIN store.uploadedFiles
        /\ getServicesByFileId(store, jobs[j].fileId) # {}

\* a file has gone through processing to error: the analysis threw a value
\* that is no Error and the fallback message is stored
ErrorWithFallbackMessage ==
    \E j \in DOMAIN jobs :
        /\ jobs[j].pc = "done"
        /\ jobs[j].result = "thrown"
        /\ ~jobs[j].thrown.isError
        /\ jobs[j].fileId \in DOMAIN store.uploadedFiles
        /\ store.uploadedFiles[jobs[j].fileId].status = "error"
        /\ store.uploadedFiles[jobs[j].fileId].errorMessage = "Unknown error occurred"

(***************************************************************************)
(* DocumentGenerator.generateDocument over MemStorage: calls of the route  *)
(* POST /api/documents/generate, interleaved at their awaits.              *)
(***************************************************************************)
\* a lookup that falls back to the default template
getTemplateOrDefault(st, templateId) ==
    LET templates == Values(st.documentTemplates, LAMBDA t : TRUE)
        found == {t \in templates : t.id = templateId}
    IN IF found # {} THEN <<CHOOSE t \in found : TRUE>>
       ELSE <<CHOOSE t \in templates : t.isDefault>>

\* templates.find(t => t.id === templateId): the template, or nothing
getTemplate(st, templateId) ==
    LET templates == Values(st.documentTemplates, LAMBDA t : TRUE)
        found == {t \in templates : t.id = templateId}
    IN IF found # {} THEN <<CHOOSE t \in found : TRUE>> ELSE <<>>

\* error instanceof Error ? error.message : "Unknown error"
documentError(e) == IF e.isError THEN e.message ELSE "Unknown error"

\* a generateDocument call: its arguments, the await it stands at, the id of
\* the record it created (0: none) and how it ended
Generation(templateId, configuration) ==
    [kind |-> "generateDocument", templateId |-> templateId,
     configuration |-> configuration, pc |-> "getTemplate", generatedDocument |-> 0,
     result |-> "pending", thrown |-> NonError, returned |-> NullValue]

\* the catch block: the record is set to error with the message, and the
\* error is thrown on
GenerationCaught(st, job, e) ==
    [store |-> updateGeneratedDocument(st, job.generatedDocument,
                   [status |-> "error",
                    configuration |-> SpreadValue(job.configuration,
                                                  [error |-> documentError(e)])]).store,
     job |-> [job EXCEPT !.pc = "done", !.result = "thrown", !.thrown = e]]

\* POST /api/documents/generate with a truthy templateId
GenerateDocument(limit, templateIds, configurations) ==
    /\ Len(jobs) < limit
    /\ \E templateId \in templateIds, configuration \in configurations :
          jobs' = Append(jobs, Generation(templateId, configuration))
    /\ UNCHANGED <<parsers, filename, content, now, detections, outcomes, calls, store>>

\* await this.getTemplate(templateId); throw new Error("Template not found")
GetTemplate(j) ==
    LET job == jobs[j] IN
    /\ job.pc = "getTemplate"
    /\ jobs' = [jobs EXCEPT ![j] =
                  IF getTemplate(store, job.templateId) = <<>>
                  THEN [job EXCEPT !.pc = "done", !.result = "thrown",
                                   !.thrown = Error("Template not found")]
                  ELSE [job EXCEPT !.pc = "create"]]
    /\ UNCHANGED <<parsers, filename, content, now, detections, outcomes, calls, store>>

\* await storage.createGeneratedDocument({..., status: "generating"})
CreateDocument(j) ==
    LET job == jobs[j]
        created == createGeneratedDocument(store,
                       [templateId |-> job.templateId, configuration |-> job.configuration,
                        status |-> "generating"])
    IN
    /\ job.pc = "create"
    /\ store' = created.store
    /\ jobs' = [jobs EXCEPT ![j] = [job EXCEPT !.pc = "generateAI",
                                               !.generatedDocument = created.value.id]]
    /\ UNCHANGED <<parsers, filename, content, now, detections, outcomes, calls>>

\* await this.generateAIDocument(fileIds, configuration): the text, or the
\* Error it wraps every failure in
GenerateAI(j) ==
    LET job == jobs[j] IN
    /\ job.pc = "generateAI"
    /\ \/ /\ jobs' = [jobs EXCEPT ![j] = [job EXCEPT !.pc = "generateSections"]]
          /\ store' = store
       \/ LET caught == GenerationCaught(store, job,
                            Error("Failed to generate AI document: OpenAI request failed")) IN
          /\ store' = caught.store
          /\ jobs' = [jobs EXCEPT ![j] = caught.job]
    /\ UNCHANGED <<parsers, filename, content, now, detections, outcomes, calls>>

\* await this.generateSections(template, fileIds, configuration): reading
\* configuration.includeSections of no configuration is a TypeError; with a
\* configuration the sections are returned, or a section generator fails
GenerateSections(j) ==
    LET job == jobs[j] IN
    /\ job.pc = "generateSections"
    /\ \/ /\ job.configuration.type = "object"
          /\ jobs' = [jobs EXCEPT ![j] = [job EXCEPT !.pc = "complete"]]
          /\ store' = store
       \/ LET caught == GenerationCaught(store, job,
                            IF job.configuration.type = "object"
                            THEN Error("Unexpected end of JSON input")
                            ELSE Error("Cannot read properties of undefined")) IN
          /\ store' = caught.store
          /\ jobs' = [jobs EXCEPT ![j] = caught.job]
    /\ UNCHANGED <<parsers, filename, content, now, detections, outcomes, calls>>

\* await storage.updateGeneratedDocument(id, {status: "completed", ...})
CompleteDocument(j) ==
    LET job == jobs[j] IN
    /\ job.pc = "complete"
    /\ store' = updateGeneratedDocument(store, job.generatedDocument,
                     [status |-> "completed",
                      configuration |-> SpreadValue(job.configuration,
                                            [generationType |-> "ai-powered"])]).store
    /\ jobs' = [jobs EXCEPT ![j] = [job EXCEPT !.pc = "return"]]
    /\ UNCHANGED <<parsers, filename, content, now, detections, outcomes, calls>>

\* return await storage.getGeneratedDocument(generatedDocument.id)
ReturnDocument(j) ==
    LET job == jobs[j] IN
    /\ job.pc = "return"
    /\ jobs' = [jobs EXCEPT ![j] = [job EXCEPT !.pc = "done", !.result = "returned",
                        !.returned = store.generatedDocuments[job.generatedDocument]]]
    /\ UNCHANGED <<parsers, filename, content, now, detections, outcomes, calls, store>>

GenerateStep(j) ==
    \/ GetTemplate(j)
    \/ CreateDocument(j)
    \/ GenerateAI(j)
    \/ GenerateSections(j)
    \/ CompleteDocument(j)
    \/ ReturnDocument(j)

TemplateIds == {1, 2, 3}

Configurations == {UndefinedValue, Object([templateFormat |-> "enterprise"])}

NextGenerate ==
    \/ GenerateDocument(2, TemplateIds, Configurations)
    \/ \E j \in DOMAIN jobs : GenerateStep(j)

\* the event loop resumes a generateDocument call whose awaited call has settled
SpecGenerate ==
    /\ InitIngest
    /\ [][NextGenerate]_vars
    /\ WF_vars(\E j \in DOMAIN jobs : GenerateStep(j))

DocumentStatusSteps == {<<"generating", "completed">>, <<"generating", "error">>}

\* the templateId of the call matches a stored template
Matches(job) == \E id \in DOMAIN store.documentTemplates :
                    store.documentTemplates[id].id = job.templateId

\* C28: a generateDocument call whose templateId matches no template throws
\* "Template not found" and creates no record; any other call creates exactly
\* one record, with status generating, and ends with that record completed,
\* returning it, or in error, with the message of the error in the
\* configuration and the error thrown on; a record's status only moves from
\* generating to completed or to error; and every call ends, so that no
\* record stays in generating.
C28_GenerationJob ==
    /\ [](\A j \in DOMAIN jobs :
            LET job == jobs[j] IN
            /\ ~Matches(job) /\ job.pc # "getTemplate" =>
                  /\ job.pc = "done" /\ job.result = "thrown"
                  /\ job.thrown = Error("Template not found")
                  /\ job.generatedDocument = 0
            /\ job.generatedDocument # 0 <=>
                  Matches(job) /\ job.pc \notin {"getTemplate", "create"}
            /\ job.generatedDocument # 0 =>
                  /\ job.generatedDocument \in DOMAIN store.generatedDocuments
                  /\ \A k \in DOMAIN jobs :
                        jobs[k].generatedDocument = job.generatedDocument => k = j
                  /\ LET document == store.generatedDocuments[job.generatedDocument] IN
                     /\ document.status = "generating" <=>
                           job.pc \in {"generateAI", "generateSections", "complete"}
                     /\ document.status = "completed" <=>
                           job.pc = "return" \/ job.result = "returned"
                     /\ document.status = "error" <=> job.result = "thrown"
                     /\ job.result = "returned" => job.returned = document
                     /\ job.result = "thrown" =>
                           /\ document.configuration.type = "object"
                           /\ document.configuration.error = documentError(job.thrown)
                           /\ document.configuration.error # "")
    /\ [](Cardinality(DOMAIN store.generatedDocuments) =
            Cardinality({j \in DOMAIN jobs : jobs[j].generatedDocument # 0}))
    /\ [][\A id \in DOMAIN store'.generatedDocuments :
            IF id \in DOMAIN store.generatedDocuments
            THEN \/ store'.generatedDocuments[id].status = store.generatedDocuments[id].status
                 \/ <<store.generatedDocuments[id].status,
                       store'.generatedDocuments[id].status>> \in DocumentStatusSteps
            ELSE store'.generatedDocuments[id].status = "generating"]_vars
    /\ (jobs # <<>>) ~> (\A j \in DOMAIN jobs : jobs[j].pc = "done")

\* three ways a call ends, at once: one call has thrown for an unknown
\* template and left no record, the other has a record and has ended, in
\* error with the message stored or completed and returned
C28_Witness ==
    /\ \E j \in DOMAIN jobs :
          ~Matches(jobs[j]) /\ jobs[j].pc = "done" /\ jobs[j].generatedDocument = 0
    /\ \E j \in DOMAIN jobs :
          /\ jobs[j].pc = "done"
          /\ jobs[j].generatedDocument \in DOMAIN store.generatedDocuments
          /\ store.generatedDocuments[jobs[j].generatedDocument].status
                \in {"completed", "error"}

(***************************************************************************)
(* The record store under the calls that reach it: uploads, two           *)
(* processFile calls interleaved at their awaits, and deletes of present   *)
(* and absent ids.                                                         *)
(***************************************************************************)
\* storage.deleteService(id): part of IStorage
DeleteService(id) ==
    /\ store' = deleteService(store, id).store
    /\ UNCHANGED <<parsers, filename, content, now, detections, outcomes, calls, jobs>>

\* a TIBCO export with a process definition and a mapper activity
Ledger == Artifact(<<"ledger", "xml">>,
                   TextContent(<<PdOpen("A"), T0("PdClose"), T0("Mapper")>>))

StoreArtifacts == {Ledger}

NextStore ==
    \/ Upload(2, {"llm", "plain"}, StoreArtifacts, {AnalysisOfA})
    \/ \E j \in DOMAIN jobs : ProcessFile(j)
    \/ \E id \in 1..store.currentFileId : DeleteFile(id)
    \/ \E id \in 1..store.currentServiceId : DeleteService(id)

SpecStore == InitIngest /\ [][NextStore]_vars

\* the maps of the store that hold records numbered by a counter
Kinds ==
    {<<"uploadedFiles", "currentFileId">>, <<"services", "currentServiceId">>,
     <<"proxyServices", "currentProxyServiceId">>,
     <<"transformations", "currentTransformationId">>,
     <<"generatedDocuments", "currentDocumentId">>}

\* the kinds whose records belong to a file
OwnedKinds == {"services", "proxyServices", "transformations"}

\* every id in use has been assigned, and a record carries the id it is stored under
IdsAssigned(st) ==
    \A kind \in Kinds :
        \A id \in DOMAIN st[kind[1]] : id < st[kind[2]] /\ st[kind[1]][id].id = id

\* from st to next: an id that comes into use is greater than every id
\* assigned before, and the counter has moved past it
IdsFresh(st, next) ==
    \A kind \in Kinds :
        /\ next[kind[2]] >= st[kind[2]]
        /\ \A id \in DOMAIN next[kind[1]] \ DOMAIN st[kind[1]] :
              id >= st[kind[2]] /\ id < next[kind[2]]

\* from st to next: a stored record stays with the file it was created for
FileIdKept(st, next) ==
    \A map \in OwnedKinds :
        \A id \in DOMAIN st[map] \cap DOMAIN next[map] : next[map][id].fileId = st[map][id].fileId

\* the records of a map with the given fileId
OfFile(map, fileId) == {map[id] : id \in {i \in DOMAIN map : map[i].fileId = fileId}}

ByFileIdExact(st) ==
    \A fileId \in 0..st.currentFileId :
        /\ getServicesByFileId(st, fileId) = OfFile(st.services, fileId)
        /\ getProxyServicesByFileId(st, fileId) = OfFile(st.proxyServices, fileId)
        /\ getTransformationsByFileId(st, fileId) = OfFile(st.transformations, fileId)

\* update* and delete* on an id that is not stored
AbsentIdNoEffect(st) ==
    /\ \A id \in (0..st.currentFileId) \ DOMAIN st.uploadedFiles :
          /\ updateUploadedFile(st, id, [status |-> "parsed"]) = Effect(st, Undefined)
          /\ deleteUploadedFile(st, id) = Effect(st, FALSE)
    /\ \A id \in (0..st.currentServiceId) \ DOMAIN st.services :
          /\ updateService(st, id, [name |-> "A"]) = Effect(st, Undefined)
          /\ deleteService(st, id) = Effect(st, FALSE)
    /\ \A id \in (0..st.currentDocumentId) \ DOMAIN st.generatedDocuments :
          updateGeneratedDocument(st, id, [status |-> "error"]) = Effect(st, Undefined)

\* deleteUploadedFile on a stored id: true, and only the file record is gone
DeleteOnlyFile(st) ==
    \A id \in DOMAIN st.uploadedFiles :
        LET deleted == deleteUploadedFile(st, id) IN
        /\ deleted.value = TRUE
        /\ id \notin DOMAIN deleted.store.uploadedFiles
        /\ deleted.store = [st EXCEPT !.uploadedFiles = MapDelete(@, id)]
        /\ \A map \in OwnedKinds : deleted.store[map] = st[map]

\* C29: every create* call of MemStorage assigns an id greater than every id
\* assigned before for its kind, so that under interleaved processFile calls
\* and deletes no two records of a kind share an id and no id comes back after
\* a delete; get*ByFileId(f) returns exactly the stored records created with
\* fileId f; update* and delete* on an absent id return undefined / false and
\* leave the store as it is; deleteUploadedFile removes the file record and
\* nothing else.
C29_StoreIdentity ==
    /\ [](IdsAssigned(store) /\ ByFileIdExact(store) /\ AbsentIdNoEffect(store)
           /\ DeleteOnlyFile(store))
    /\ [][IdsFresh(store, store') /\ FileIdKept(store, store')]_vars

\* a file has been deleted and its services are still stored, and a service
\* has been stored under a new id after another one was deleted
C29_Witness ==
    /\ \E fileId \in 1..(store.currentFileId - 1) :
          /\ fileId \notin DOMAIN store.uploadedFiles
          /\ getServicesByFileId(store, fileId) # {}
    /\ \E id \in 1..(store.currentServiceId - 1) :
          /\ id \notin DOMAIN store.services
          /\ \E later \in DOMAIN store.services : later > id

====
